---- MODULE Spec2Model ----
(***************************************************************************)
(* LGA console: the departure-rule resolver (matchField, matchAirspace,    *)
(* pickDepartureRule, the derived-input lookups and runTool) and the METAR *)
(* watchlist batch (refreshWx).                                            *)
(*                                                                         *)
(* JavaScript strings are modelled as sequences of one-character strings,  *)
(* so that trim, toUpperCase, includes and split are computed and not      *)
(* assumed.  A field that is absent from a row (undefined) is the empty    *)
(* string: norm(s) is (s ?? "").trim().                                    *)
(***************************************************************************)
EXTENDS Integers, Sequences, FiniteSets, TLC

VARIABLES
    \* ---- predicate harness (matchField / matchAirspace) ----
    mRule,          \* ruleVal handed to the predicate
    mInput,         \* inputVal handed to the predicate
    mOut,           \* [fn |-> the predicate applied or "none", val |-> its result]
    \* ---- tables (process-wide state, part_000:533-537) ----
    lgaConfigRows,
    jfkConfigRows,
    gatesRows,
    depRulesRows,
    routesRows,
    navaidIndexBuilt,   \* buildNavaidMaps has run on the loaded navaid table
    airportIndexBuilt,  \* buildAirportMaps has run on the loaded airport table
    \* ---- DOMContentLoaded handler ----
    initPc,         \* the table whose load is awaited, or "ready" / "error" ("idle": not run)
    runBtnWired,    \* runBtn has its click listener
    searchWired,    \* wireUnifiedPanelClicks has registered the search/selection listeners
    loadLog,        \* the tables loaded so far, in the order their loads completed
    searchOut,      \* the last reference search: [queried, navaids, airports]
    \* ---- the tool's elements ----
    ui,             \* values of the input elements as runTool last read them
    computedOut,    \* status / computed-inputs output
    depOut,         \* departure output
    routesOut,      \* routes output
    \* ---- last rule evaluation ----
    lastPick,       \* the last pickDepartureRule call: [called, inputs, rule]
    memo,           \* one earlier pickDepartureRule call, remembered
    \* ---- weather ----
    wxStorage,      \* localStorage item ids4_wx_watchlist_v2
    wxWatchlist,
    wxBatches,      \* one record per refreshWx invocation that started fetching
    wxOut           \* what the wxOut element shows

matchVars == <<mRule, mInput, mOut>>
tableVars == <<lgaConfigRows, jfkConfigRows, gatesRows, depRulesRows, routesRows,
               navaidIndexBuilt, airportIndexBuilt>>
toolVars  == <<initPc, runBtnWired, searchWired, loadLog, searchOut, ui, computedOut, depOut, routesOut, lastPick, memo>>
wxVars    == <<wxStorage, wxWatchlist, wxBatches, wxOut>>
vars      == <<matchVars, tableVars, toolVars, wxVars>>

-----------------------------------------------------------------------------
(* Strings *)

\* Letters whose case the model distinguishes: Lower[i] uppercases to Upper[i].
Lower == <<"a", "b", "c", "d", "e", "f", "g", "h", "i", "j", "k", "l", "m",
           "n", "o", "p", "q", "r", "s", "t", "u", "v", "w", "x", "y", "z">>
Upper == <<"A", "B", "C", "D", "E", "F", "G", "H", "I", "J", "K", "L", "M",
           "N", "O", "P", "Q", "R", "S", "T", "U", "V", "W", "X", "Y", "Z">>

\* The upper-case letter of each lower-case letter.
UpperOf ==
    [c \in {Lower[i] : i \in 1..Len(Lower)} |->
        Upper[CHOOSE i \in 1..Len(Lower) : Lower[i] = c]]

\* String.prototype.toUpperCase, one character.
upperChar(c) == IF c \in DOMAIN UpperOf THEN UpperOf[c] ELSE c

\* String.prototype.toUpperCase
toUpperCase(s) == [i \in 1..Len(s) |-> upperChar(s[i])]

\* White space as String.prototype.trim and \s see it.
isSpace(c) == c = " "

RECURSIVE trimStart(_)
trimStart(s) ==
    IF s # <<>> /\ isSpace(Head(s)) THEN trimStart(Tail(s)) ELSE s

RECURSIVE trimEnd(_)
trimEnd(s) ==
    IF s # <<>> /\ isSpace(s[Len(s)]) THEN trimEnd(SubSeq(s, 1, Len(s) - 1)) ELSE s

\* String.prototype.trim
trim(s) == trimEnd(trimStart(s))

\* norm(s) { return (s ?? "").trim(); }
norm(s) == trim(s)

\* includes requiring the whole string to be the part.
includesWhole(s, part) == s = part

\* String.prototype.includes
includes(s, part) ==
    \E k \in 0..(Len(s) - Len(part)) : \A i \in 1..Len(part) : s[k + i] = part[i]

\* The characters the split pattern /\s*\+\s*|\s*,\s*|\s*&\s*/ is built on.
isSeparator(c) == c \in {"+", ",", "&"}

\* s.split(/\s*\+\s*|\s*,\s*|\s*&\s*/g): the pieces between separators.  The
\* white space the pattern takes with each separator is removed from the
\* pieces by reqPartsOf below, as the code's .map(s => s.trim()) removes
\* whatever is left of it.
RECURSIVE splitPieces(_, _)
splitPieces(s, cur) ==
    IF s = <<>> THEN <<cur>>
    ELSE IF isSeparator(Head(s)) THEN <<cur>> \o splitPieces(Tail(s), <<>>)
    ELSE splitPieces(Tail(s), Append(cur, Head(s)))

\* .filter(Boolean) on a sequence of strings
RECURSIVE filterNonEmpty(_)
filterNonEmpty(ps) ==
    IF ps = <<>> THEN <<>>
    ELSE IF Head(ps) = <<>> THEN filterNonEmpty(Tail(ps))
    ELSE <<Head(ps)>> \o filterNonEmpty(Tail(ps))

\* r.toUpperCase().split(...).map(s => s.trim()).filter(Boolean)
reqPartsOf(r) ==
    LET pieces == splitPieces(toUpperCase(r), <<>>)
    IN  filterNonEmpty([i \in 1..Len(pieces) |-> trim(pieces[i])])

-----------------------------------------------------------------------------
(* Rule Matching Engine: the two predicates *)

Star == <<"*">>

\* matchAirspace with the requirement taken as one token (no split).
matchAirspaceUnsplit(ruleVal, inputVal) ==
    LET r == norm(ruleVal)
        v == norm(inputVal)
    IN  IF r = Star \/ r = <<>> THEN TRUE
        ELSE IF v = <<>> THEN FALSE
        ELSE includes(toUpperCase(v), toUpperCase(r))

matchAirspace(ruleVal, inputVal) ==
    LET r == norm(ruleVal)
        v == norm(inputVal)
    IN  IF r = Star \/ r = <<>> THEN TRUE
        ELSE IF v = <<>> THEN FALSE
        ELSE LET V == toUpperCase(v)
                 reqParts == reqPartsOf(r)
             IN  \A k \in 1..Len(reqParts) : includes(V, reqParts[k])

\* matchField comparing without toUpperCase.
matchFieldCaseSensitive(ruleVal, inputVal) ==
    LET r == norm(ruleVal)
        v == norm(inputVal)
    IN  IF r = Star \/ r = <<>> THEN TRUE
        ELSE IF v = <<>> THEN FALSE
        ELSE r = v

matchField(ruleVal, inputVal) ==
    LET r == norm(ruleVal)
        v == norm(inputVal)
    IN  IF r = Star \/ r = <<>> THEN TRUE
        ELSE IF v = <<>> THEN FALSE
        ELSE toUpperCase(r) = toUpperCase(v)

-----------------------------------------------------------------------------
(* Rule Matching Engine: priority selection *)

\* A row of Dep_Rules.tsv as parseTSV builds it: every field a trimmed string.
\* `line` is the row's position in the file: it stands for the identity of the
\* row object, which the code returns by reference.
RuleRow(line, dep, lga, jfk, gate, fix, acft, ldg, output, notes, priority) ==
    [line |-> line, DEP_RWY |-> dep, LGA_AIRSPACE_REQ |-> lga,
     JFK_AIRSPACE_REQ |-> jfk, EXIT_GATE_DIR |-> gate, EXIT_FIX_REQ |-> fix,
     ACFT_TYPE |-> acft, LGA_LDG_CLASS_REQ |-> ldg, OUTPUT |-> output,
     NOTES |-> notes, PRIORITY |-> priority]

\* pickDepartureRule's null.
NullRule == RuleRow(0, <<>>, <<>>, <<>>, <<>>, <<>>, <<>>, <<>>, <<>>, <<>>, <<>>)

Digits == <<"0", "1", "2", "3", "4", "5", "6", "7", "8", "9">>

isDigit(c) == \E d \in 1..10 : Digits[d] = c

digitValue(c) == (CHOOSE d \in 1..10 : Digits[d] = c) - 1

RECURSIVE decimalValue(_)
decimalValue(s) ==
    IF s = <<>> THEN 0
    ELSE 10 * decimalValue(SubSeq(s, 1, Len(s) - 1)) + digitValue(s[Len(s)])

\* Number(s) for the strings a PRIORITY column holds: white space is ignored,
\* the empty string is 0, a decimal numeral is its value, anything else NaN.
Number(s) ==
    LET t == trim(s)
    IN  IF \A i \in 1..Len(t) : isDigit(t[i])
        THEN [nan |-> FALSE, val |-> decimalValue(t)]
        ELSE [nan |-> TRUE, val |-> 0]

\* The comparator with ascending and descending swapped.
comparePriorityDescending(a, b) ==
    LET x == Number(a.PRIORITY)
        y == Number(b.PRIORITY)
    IN  IF x.nan \/ y.nan THEN 0 ELSE y.val - x.val

\* (a, b) => Number(a.PRIORITY) - Number(b.PRIORITY); sort reads a NaN
\* result as +0.
comparePriority(a, b) ==
    LET x == Number(a.PRIORITY)
        y == Number(b.PRIORITY)
    IN  IF x.nan \/ y.nan THEN 0 ELSE x.val - y.val

\* insertAt also passing the elements that compare equal (not stable).
RECURSIVE insertAtUnstable(_, _, _)
insertAtUnstable(sorted, x, j) ==
    IF j >= 1 /\ comparePriority(sorted[j], x) >= 0
    THEN insertAtUnstable(sorted, x, j - 1)
    ELSE j

\* Where x goes in the sorted prefix: behind every element that does not
\* compare greater than it.
RECURSIVE insertAt(_, _, _)
insertAt(sorted, x, j) ==
    IF j >= 1 /\ comparePriority(sorted[j], x) > 0
    THEN insertAt(sorted, x, j - 1)
    ELSE j

\* Array.prototype.sort with the priority comparator: a stable sort
\* (ECMAScript 2019), computed by insertion.
RECURSIVE sortByPriority(_)
sortByPriority(ms) ==
    IF ms = <<>> THEN <<>>
    ELSE LET sorted == sortByPriority(SubSeq(ms, 1, Len(ms) - 1))
             x == ms[Len(ms)]
             j == insertAt(sorted, x, Len(sorted))
         IN  SubSeq(sorted, 1, j) \o <<x>> \o SubSeq(sorted, j + 1, Len(sorted))

\* The canonical input vector runTool builds.
InputVector(dep, ldg, lga, jfk, gate, fix, acft) ==
    [DEP_RWY |-> dep, LGA_LDG_CLASS |-> ldg, LGA_AIRSPACE |-> lga,
     JFK_AIRSPACE |-> jfk, EXIT_GATE_DIR |-> gate, EXIT_FIX |-> fix,
     ACFT_TYPE |-> acft]

EmptyInputs == InputVector(<<>>, <<>>, <<>>, <<>>, <<>>, <<>>, <<>>)

\* The filter predicate without its first conjunct.
ruleMatchesSixFields(r, inputs) ==
    /\ matchAirspace(r.LGA_AIRSPACE_REQ, inputs.LGA_AIRSPACE)
    /\ matchAirspace(r.JFK_AIRSPACE_REQ, inputs.JFK_AIRSPACE)
    /\ matchField(r.EXIT_GATE_DIR, inputs.EXIT_GATE_DIR)
    /\ matchField(r.EXIT_FIX_REQ, inputs.EXIT_FIX)
    /\ matchField(r.ACFT_TYPE, inputs.ACFT_TYPE)
    /\ matchField(r.LGA_LDG_CLASS_REQ, inputs.LGA_LDG_CLASS)

\* The filter predicate of pickDepartureRule.
ruleMatches(r, inputs) ==
    /\ matchField(r.DEP_RWY, inputs.DEP_RWY)
    /\ matchAirspace(r.LGA_AIRSPACE_REQ, inputs.LGA_AIRSPACE)
    /\ matchAirspace(r.JFK_AIRSPACE_REQ, inputs.JFK_AIRSPACE)
    /\ matchField(r.EXIT_GATE_DIR, inputs.EXIT_GATE_DIR)
    /\ matchField(r.EXIT_FIX_REQ, inputs.EXIT_FIX)
    /\ matchField(r.ACFT_TYPE, inputs.ACFT_TYPE)
    /\ matchField(r.LGA_LDG_CLASS_REQ, inputs.LGA_LDG_CLASS)

\* depRulesRows.filter(r => ...): a new array, in table order.
RECURSIVE filterMatches(_, _)
filterMatches(rows, inputs) ==
    IF rows = <<>> THEN <<>>
    ELSE IF ruleMatches(Head(rows), inputs)
         THEN <<Head(rows)>> \o filterMatches(Tail(rows), inputs)
         ELSE filterMatches(Tail(rows), inputs)

\* pickDepartureRule without the sort: the first match in table order.
pickFirstMatch(rows, inputs) ==
    LET matches == filterMatches(rows, inputs)
    IN  IF matches = <<>> THEN NullRule ELSE matches[1]

pickDepartureRule(rows, inputs) ==
    LET matches == filterMatches(rows, inputs)
    IN  IF matches = <<>> THEN NullRule ELSE sortByPriority(matches)[1]

\* The table with the row the call returns taken out of it.
RECURSIVE without(_, _)
without(rows, r) ==
    IF rows = <<>> THEN <<>>
    ELSE IF Head(rows) = r THEN Tail(rows)
    ELSE <<Head(rows)>> \o without(Tail(rows), r)

rowsAfterPickConsumed(rows, inputs) == without(rows, pickDepartureRule(rows, inputs))

\* depRulesRows after a call of pickDepartureRule: filter builds a new array
\* and sort reorders that array, so the table is as it was.
rowsAfterPick(rows, inputs) == rows

-----------------------------------------------------------------------------
(* Bounded string domains *)

MaxRuleLen == 3
MaxInputLen == 3

StringsUpTo(chars, n) == UNION {[1..k -> chars] : k \in 0..n}

\* Rule values: a letter in each case, a separator, white space, the wildcard.
RuleChars == {"A", "b", "+", " ", "*"}
\* Input values: the same letters in the other case, a filler, white space.
InputChars == {"a", "B", "X", " "}

\* The requirement and the two inputs of the documented example, and the
\* other two separators.
ExampleRuleVals == {<<"A", "+", "B">>, <<"A", ",", "B">>, <<"b", " ", "&", " ", "A">>}
ExampleInputVals == {<<"X", "A", "Y", "B">>, <<"X", "A", "Y">>, <<"x", "b", "y", "a">>}

MatchRuleVals == StringsUpTo(RuleChars, MaxRuleLen) \cup ExampleRuleVals
MatchInputVals == StringsUpTo(InputChars, MaxInputLen) \cup ExampleInputVals

-----------------------------------------------------------------------------
(* Predicate harness: the predicates applied to every pair of the domains *)

NoOut == [fn |-> "none", val |-> FALSE]

IdleTables ==
    /\ lgaConfigRows = <<>>
    /\ jfkConfigRows = <<>>
    /\ gatesRows = <<>>
    /\ depRulesRows = <<>>
    /\ routesRows = <<>>
    /\ navaidIndexBuilt = FALSE
    /\ airportIndexBuilt = FALSE

NoUi == [read |-> FALSE, lgaConfig |-> <<>>, jfkConfig |-> <<>>, exitFix |-> <<>>,
        acftType |-> <<>>, dest |-> <<>>]
NoPick == [called |-> FALSE, inputs |-> EmptyInputs, rule |-> NullRule]
NoMemo == [set |-> FALSE, others |-> FALSE, inputs |-> EmptyInputs, rule |-> NullRule]

NoSearch == [queried |-> FALSE, navaids |-> FALSE, airports |-> FALSE]

IdleTool ==
    /\ initPc = "idle"
    /\ runBtnWired = FALSE
    /\ searchWired = FALSE
    /\ loadLog = <<>>
    /\ searchOut = NoSearch
    /\ ui = NoUi
    /\ computedOut = [kind |-> "blank"]
    /\ depOut = [kind |-> "blank"]
    /\ routesOut = [kind |-> "blank"]
    /\ lastPick = NoPick
    /\ memo = NoMemo

IdleWx ==
    /\ wxStorage = [kind |-> "absent", items |-> <<>>]
    /\ wxWatchlist = <<>>
    /\ wxBatches = <<>>
    /\ wxOut = [kind |-> "blank"]

IdleMatch ==
    /\ mRule = <<>>
    /\ mInput = <<>>
    /\ mOut = NoOut

InitMatch ==
    /\ mRule \in MatchRuleVals
    /\ mInput \in MatchInputVals
    /\ mOut = NoOut
    /\ IdleTables /\ IdleTool /\ IdleWx

CallMatchField ==
    /\ mOut.fn = "none"
    /\ mOut' = [fn |-> "matchField", val |-> matchField(mRule, mInput)]
    /\ UNCHANGED <<mRule, mInput, tableVars, toolVars, wxVars>>

CallMatchAirspace ==
    /\ mOut.fn = "none"
    /\ mOut' = [fn |-> "matchAirspace", val |-> matchAirspace(mRule, mInput)]
    /\ UNCHANGED <<mRule, mInput, tableVars, toolVars, wxVars>>

NextMatch == CallMatchField \/ CallMatchAirspace

SpecMatch == InitMatch /\ [][NextMatch]_vars

-----------------------------------------------------------------------------
(* Bounded rule tables and input vectors *)

sWHITE == <<"W", "H", "I", "T", "E">>
sMASPETH == <<"L", "G", "A", "7", ".", "M", "A", "S", "P", "E", "T", "H">>
sCONEY == <<"L", "G", "A", "7", ".", "C", "O", "N", "E", "Y">>
sGLDMN == <<"G", "L", "D", "M", "N", "#">>
sHDG == <<"R", "W", "Y", " ", "H", "D", "G">>
sJET == <<"J", "E", "T">>

\* The rows tables are built from.  PRIORITY is numeric (the data model of
\* the rule table): a decimal numeral, or left empty, which Number reads as 0.
RulePool == <<
    \* the row of the end-to-end scenario
    RuleRow(0, <<"4">>, <<"N">>, Star, <<"N">>, Star, Star, Star, sMASPETH, <<>>, <<"1">>),
    \* every requirement left empty
    RuleRow(0, <<>>, <<>>, <<>>, <<>>, <<>>, <<>>, <<>>, sHDG, <<>>, <<"1", "0">>),
    \* requirements in lower case, two airspace tokens in reverse order
    RuleRow(0, <<"4">>, <<"s", " ", "+", " ", "n">>, <<"N", "E">>, <<"n">>, sWHITE, sJET,
            <<"a">>, sGLDMN, <<"n", "b">>, <<"9">>),
    \* all wildcards, same priority as the first row
    RuleRow(0, Star, Star, Star, Star, Star, Star, Star, sCONEY, <<>>, <<"1">>),
    \* another runway, priority left empty
    RuleRow(0, <<"1", "3">>, Star, Star, Star, Star, Star, Star, sHDG, <<>>, <<>>) >>

MaxRules == 3

\* Every table of at most MaxRules rows of the pool, each row with its line.
RuleTablesUpTo(max) ==
    UNION { { [i \in 1..n |-> [RulePool[f[i]] EXCEPT !.line = i]] :
              f \in [1..n -> 1..Len(RulePool)] } : n \in 0..max }

RuleTables == RuleTablesUpTo(MaxRules)

\* The rule tables a whole session is explored with.
MaxSessionRules == 2

SessionRuleTables == RuleTablesUpTo(MaxSessionRules)

\* Input vectors: the scenario's, with the runway, the LGA airspace and the
\* exit fix with the aircraft type varied, and the vector of a session where
\* every lookup missed.
PickInputs ==
    { InputVector(dep, <<"A">>, lga, <<"N", "E">>, <<"N">>, fa[1], fa[2]) :
        dep \in {<<"4">>, <<"1", "3">>},
        lga \in {<<"N", "+", "S">>, <<"S">>},
        fa \in {<<sWHITE, sJET>>, <<<<>>, Star>>} }
    \cup {EmptyInputs}

-----------------------------------------------------------------------------
(* pickDepartureRule harness: any table, any sequence of calls *)

InitPick ==
    /\ depRulesRows \in RuleTables
    /\ lgaConfigRows = <<>> /\ jfkConfigRows = <<>> /\ gatesRows = <<>>
    /\ routesRows = <<>> /\ navaidIndexBuilt = FALSE /\ airportIndexBuilt = FALSE
    /\ IdleMatch /\ IdleTool /\ IdleWx

\* One call of pickDepartureRule.  memo keeps one call of the past (any one:
\* the choice to remember is free) and notes whether a call on other inputs
\* came after it.
CallPick(inputs, remember) ==
    \E rule \in {pickDepartureRule(depRulesRows, inputs)} :
        /\ lastPick' = [called |-> TRUE, inputs |-> inputs, rule |-> rule]
        /\ depRulesRows' = rowsAfterPick(depRulesRows, inputs)
        /\ memo' = IF remember /\ ~memo.set
                   THEN [set |-> TRUE, others |-> FALSE, inputs |-> inputs, rule |-> rule]
                   ELSE IF memo.set /\ inputs # memo.inputs
                   THEN [memo EXCEPT !.others = TRUE]
                   ELSE memo
        /\ UNCHANGED <<matchVars, lgaConfigRows, jfkConfigRows, gatesRows, routesRows,
                       navaidIndexBuilt, airportIndexBuilt, initPc, runBtnWired, searchWired, loadLog, searchOut, ui,
                       computedOut, depOut, routesOut, wxVars>>

NextPick == \E inputs \in PickInputs, remember \in BOOLEAN : CallPick(inputs, remember)

SpecPick == InitPick /\ [][NextPick]_vars

\* The rows of the table that satisfy all seven predicates for the inputs,
\* each predicate named as the contract names it.
Satisfying(rows, inputs) ==
    { i \in 1..Len(rows) :
        /\ matchField(rows[i].DEP_RWY, inputs.DEP_RWY)
        /\ matchField(rows[i].EXIT_GATE_DIR, inputs.EXIT_GATE_DIR)
        /\ matchField(rows[i].EXIT_FIX_REQ, inputs.EXIT_FIX)
        /\ matchField(rows[i].ACFT_TYPE, inputs.ACFT_TYPE)
        /\ matchField(rows[i].LGA_LDG_CLASS_REQ, inputs.LGA_LDG_CLASS)
        /\ matchAirspace(rows[i].LGA_AIRSPACE_REQ, inputs.LGA_AIRSPACE)
        /\ matchAirspace(rows[i].JFK_AIRSPACE_REQ, inputs.JFK_AIRSPACE) }

PriorityOf(r) == Number(r.PRIORITY).val

\* C1: pickDepartureRule returns no rule or one row of the table; a returned
\* row satisfies all seven predicates; it returns no rule exactly when no
\* row of the table satisfies them.
C1_PickReturnsSatisfyingRow ==
    lastPick.called =>
        LET sat == Satisfying(depRulesRows, lastPick.inputs)
        IN  /\ (lastPick.rule = NullRule) <=> (sat = {})
            /\ lastPick.rule # NullRule =>
                   /\ lastPick.rule.line \in sat
                   /\ depRulesRows[lastPick.rule.line] = lastPick.rule

\* A call returned a row of a table that also holds a row failing a predicate.
C1_Witness ==
    /\ lastPick.called
    /\ lastPick.rule # NullRule
    /\ Satisfying(depRulesRows, lastPick.inputs) # 1..Len(depRulesRows)

\* C2: the returned row has the lowest priority number among the satisfying
\* rows.
C2_LowestPriorityWins ==
    (lastPick.called /\ lastPick.rule # NullRule) =>
        \A i \in Satisfying(depRulesRows, lastPick.inputs) :
            PriorityOf(depRulesRows[i]) >= PriorityOf(lastPick.rule)

\* Several rows satisfied, of different priorities, and the one returned is
\* not the first of them in the table.
C2_Witness ==
    /\ lastPick.called
    /\ \E i \in Satisfying(depRulesRows, lastPick.inputs) :
          /\ i < lastPick.rule.line
          /\ PriorityOf(depRulesRows[i]) > PriorityOf(lastPick.rule)

\* C3: among satisfying rows that share the lowest priority number, the one
\* first in the table is returned.
C3_TiesByTableOrder ==
    (lastPick.called /\ lastPick.rule # NullRule) =>
        \A i \in Satisfying(depRulesRows, lastPick.inputs) :
            PriorityOf(depRulesRows[i]) = PriorityOf(lastPick.rule)
                => lastPick.rule.line <= i

\* Two satisfying rows of different content share the lowest priority, behind
\* a satisfying row of higher priority number.
C3_Witness ==
    /\ lastPick.called
    /\ lastPick.rule # NullRule
    /\ \E i, j \in Satisfying(depRulesRows, lastPick.inputs) :
          /\ i < lastPick.rule.line /\ lastPick.rule.line < j
          /\ PriorityOf(depRulesRows[i]) > PriorityOf(lastPick.rule)
          /\ PriorityOf(depRulesRows[j]) = PriorityOf(lastPick.rule)
          /\ depRulesRows[j].OUTPUT # lastPick.rule.OUTPUT

-----------------------------------------------------------------------------
(* What the predicates are required to compute, stated without the code's    *)
(* helpers: letters compared pairwise, trimming as a decomposition.          *)

SameLetter(c, d) ==
    c = d \/ \E i \in 1..Len(Lower) : {c, d} = {Lower[i], Upper[i]}

EqualIgnoringCase(s, t) ==
    Len(s) = Len(t) /\ \A i \in 1..Len(s) : SameLetter(s[i], t[i])

OccursIgnoringCase(part, s) ==
    \E k \in 0..(Len(s) - Len(part)) :
        \A i \in 1..Len(part) : SameLetter(part[i], s[k + i])

AllSpaces(s, i, j) == \A k \in i..j : s[k] = " "

\* The string s without its leading and trailing white space.
Trimmed(s) ==
    IF AllSpaces(s, 1, Len(s)) THEN <<>>
    ELSE LET i == CHOOSE i \in 1..Len(s) : s[i] # " " /\ AllSpaces(s, 1, i - 1)
             j == CHOOSE j \in 1..Len(s) : s[j] # " " /\ AllSpaces(s, j + 1, Len(s))
         IN  SubSeq(s, i, j)

IsWildcard(s) == Trimmed(s) \in {<<"*">>, <<>>}

\* The tokens of a requirement: its maximal runs free of "+", "," and "&",
\* each without the white space around it.
TokensOf(s) ==
    LET IsSep(k) == s[k] \in {"+", ",", "&"}
    IN  { Trimmed(SubSeq(s, i, j)) : <<i, j>> \in
            { p \in (1..Len(s)) \X (1..Len(s)) :
                /\ p[1] <= p[2]
                /\ \A k \in p[1]..p[2] : ~IsSep(k)
                /\ (p[1] = 1 \/ IsSep(p[1] - 1))
                /\ (p[2] = Len(s) \/ IsSep(p[2] + 1)) } }

\* C4: matchField is true for a wildcard or empty rule value whatever the
\* input, false for any other rule value against an empty input, and
\* otherwise true exactly when the two trimmed values are equal ignoring
\* letter case.
C4_MatchFieldContract ==
    mOut.fn = "matchField" =>
        LET r == Trimmed(mRule)
            v == Trimmed(mInput)
        IN  /\ IsWildcard(mRule) => mOut.val
            /\ (~IsWildcard(mRule) /\ v = <<>>) => ~mOut.val
            /\ (~IsWildcard(mRule) /\ v # <<>>) =>
                   (mOut.val <=> EqualIgnoringCase(r, v))

\* matchField has been applied in each of the three cases, with a pair that
\* differs in letter case only among the equal ones.
C4_Witness ==
    /\ mOut.fn = "matchField"
    /\ mOut.val
    /\ ~IsWildcard(mRule)
    /\ Trimmed(mRule) # Trimmed(mInput)
    /\ mRule # Trimmed(mRule)

\* C5: matchAirspace is true for a wildcard or empty requirement, false for
\* any other requirement against an empty input, and otherwise true exactly
\* when every token of the requirement occurs in the input ignoring case,
\* whatever the order of the tokens.
C5_MatchAirspaceContract ==
    mOut.fn = "matchAirspace" =>
        LET v == Trimmed(mInput)
        IN  /\ IsWildcard(mRule) => mOut.val
            /\ (~IsWildcard(mRule) /\ v = <<>>) => ~mOut.val
            /\ (~IsWildcard(mRule) /\ v # <<>>) =>
                   (mOut.val <=>
                        \A tok \in TokensOf(Trimmed(mRule)) : OccursIgnoringCase(tok, mInput))

\* The documented example: requirement "A+B" matched by "XAYB".
C5_Witness ==
    /\ mOut.fn = "matchAirspace"
    /\ mRule = <<"A", "+", "B">>
    /\ mInput = <<"X", "A", "Y", "B">>
    /\ mOut.val

\* ... and not matched by "XAY".
C5_WitnessMissingToken ==
    /\ mOut.fn = "matchAirspace"
    /\ mRule = <<"A", "+", "B">>
    /\ mInput = <<"X", "A", "Y">>
    /\ ~mOut.val

-----------------------------------------------------------------------------
(* Derivation Resolver *)

\* lookups falling back on the table's first row when no row has the key
getGateDirectionOrFirst(rows, exitFix) ==
    LET ef == toUpperCase(norm(exitFix))
        hits == { i \in 1..Len(rows) : toUpperCase(norm(rows[i].Gate)) = ef }
    IN  IF hits # {}
        THEN norm(rows[CHOOSE i \in hits : \A j \in hits : i <= j].Direction)
        ELSE IF rows # <<>> THEN norm(rows[1].Direction) ELSE <<>>

\* gatesRows.find(r => norm(r.Gate).toUpperCase() === ef): the first such row
getGateDirection(rows, exitFix) ==
    LET ef == toUpperCase(norm(exitFix))
        hits == { i \in 1..Len(rows) : toUpperCase(norm(rows[i].Gate)) = ef }
    IN  IF hits # {}
        THEN norm(rows[CHOOSE i \in hits : \A j \in hits : i <= j].Direction)
        ELSE <<>>

getLgaDerived(rows, lgaConfig) ==
    LET hits == { i \in 1..Len(rows) : norm(rows[i].LGA_ATIS_Config) = norm(lgaConfig) }
        row == rows[CHOOSE i \in hits : \A j \in hits : i <= j]
    IN  [depRwy |-> IF hits # {} THEN norm(row.DEP_RWY) ELSE <<>>,
         ldgClass |-> IF hits # {} THEN norm(row.LGA_LDG_CLASS) ELSE <<>>]

getAirspaceFromJfkConfig(rows, jfkConfig) ==
    LET hits == { i \in 1..Len(rows) : norm(rows[i].JFK_ATIS_Config) = norm(jfkConfig) }
        row == rows[CHOOSE i \in hits : \A j \in hits : i <= j]
    IN  [jfkAirspace |-> IF hits # {} THEN norm(row.JFK_AIRSPACE) ELSE <<>>,
         lgaAirspace |-> IF hits # {} THEN norm(row.LGA_AIRSPACE) ELSE <<>>]

-----------------------------------------------------------------------------
(* Procedure Classifier *)

\* p.replace(/\s+/g, ".")
RECURSIVE replaceSpaceRuns(_)
replaceSpaceRuns(s) ==
    IF s = <<>> THEN <<>>
    ELSE IF isSpace(Head(s))
         THEN <<".">> \o replaceSpaceRuns(trimStart(s))
         ELSE <<Head(s)>> \o replaceSpaceRuns(Tail(s))

rnav == << <<"H", "O", "P", "E", "A">>, <<"J", "U", "T", "E", "S">>,
           <<"T", "N", "N", "I", "S">>, <<"N", "T", "H", "N", "S">>,
           <<"G", "L", "D", "M", "N">> >>

\* The classifier without the replacement of white space by dots.
isClimbViaSidUnnormalized(procStr) ==
    LET p == toUpperCase(norm(procStr))
    IN  IF p = <<>> THEN FALSE
        ELSE IF includes(p, <<"L", "G", "A", "7", ".", "M", "A", "S", "P", "E", "T", "H">>) THEN TRUE
        ELSE IF includes(p, <<"L", "G", "A", "7", ".", "C", "O", "N", "E", "Y">>) THEN TRUE
        ELSE \E k \in 1..Len(rnav) :
                includes(p, Append(rnav[k], "#")) \/ includes(p, rnav[k])

isClimbViaSidFromProcedure(procStr) ==
    LET p == toUpperCase(norm(procStr))
        pNorm == replaceSpaceRuns(p)
    IN  IF p = <<>> THEN FALSE
        ELSE IF includes(pNorm, <<"L", "G", "A", "7", ".", "M", "A", "S", "P", "E", "T", "H">>) THEN TRUE
        ELSE IF includes(pNorm, <<"L", "G", "A", "7", ".", "C", "O", "N", "E", "Y">>) THEN TRUE
        ELSE \E k \in 1..Len(rnav) :
                includes(pNorm, Append(rnav[k], "#")) \/ includes(pNorm, rnav[k])

-----------------------------------------------------------------------------
(* Route Join *)

sKLGA == <<"K", "L", "G", "A">>

\* The filter without the test of the origin.
RECURSIVE filterRoutesAnyOrigin(_, _)
filterRoutesAnyOrigin(rows, d) ==
    IF rows = <<>> THEN <<>>
    ELSE IF toUpperCase(norm(Head(rows).Destination)) = d
         THEN <<Head(rows)>> \o filterRoutesAnyOrigin(Tail(rows), d)
         ELSE filterRoutesAnyOrigin(Tail(rows), d)

RECURSIVE filterRoutes(_, _)
filterRoutes(rows, d) ==
    IF rows = <<>> THEN <<>>
    ELSE IF toUpperCase(norm(Head(rows).Origin)) = sKLGA
            /\ toUpperCase(norm(Head(rows).Destination)) = d
         THEN <<Head(rows)>> \o filterRoutes(Tail(rows), d)
         ELSE filterRoutes(Tail(rows), d)

getRoutes(rows, dest) ==
    LET d == toUpperCase(norm(dest))
    IN  IF d = <<>> THEN <<>> ELSE filterRoutes(rows, d)

-----------------------------------------------------------------------------
(* runTool: the click handler of the execute button *)

sUnknown == <<"(", "u", "n", "k", "n", "o", "w", "n", ")">>
sBlank == <<"(", "b", "l", "a", "n", "k", ")">>

\* `${x || alt}`
orElse(x, alt) == IF x = <<>> THEN alt ELSE x

\* What runTool shows in depOut for the rule picked.
depOutFor(rule) ==
    IF rule = NullRule
    THEN [kind |-> "text", text |-> "No matching departure rule found."]
    ELSE LET proc == norm(rule.OUTPUT)
         IN  [kind |-> "rule", procedure |-> proc,
              climb |-> IF isClimbViaSidFromProcedure(proc)
                        THEN "CLIMB VIA SID" ELSE "CLIMB AND MAINTAIN 5,000",
              notes |-> IF norm(rule.NOTES) # <<>> THEN rule.NOTES ELSE <<>>]

\* What runTool shows in routesOut.
routesOutFor(dest) ==
    LET rts == getRoutes(routesRows, dest)
    IN  IF norm(dest) = <<>>
        THEN [kind |-> "text", text |-> "Enter a destination (e.g. KPHL)."]
        ELSE IF rts = <<>>
        THEN [kind |-> "noRoutes", dest |-> toUpperCase(norm(dest))]
        ELSE [kind |-> "table", rows |-> rts]

\* The inputs are the values of the five input elements at the click.  Each
\* local constant of the handler is bound once (\E over a singleton).
runTool(lgaConfig, jfkConfig, exitFixValue, acftType, dest) ==
    \E exitFix \in {toUpperCase(norm(exitFixValue))} :
    \E lga \in {getLgaDerived(lgaConfigRows, lgaConfig)} :
    \E jfk \in {getAirspaceFromJfkConfig(jfkConfigRows, jfkConfig)} :
    \E gateDir \in {getGateDirection(gatesRows, exitFix)} :
    \E inputs \in {InputVector(lga.depRwy, lga.ldgClass, jfk.lgaAirspace,
                               jfk.jfkAirspace, gateDir, exitFix, acftType)} :
    \E rule \in {pickDepartureRule(depRulesRows, inputs)} :
        /\ runBtnWired
        /\ ui' = [read |-> TRUE, lgaConfig |-> lgaConfig, jfkConfig |-> jfkConfig,
                  exitFix |-> exitFixValue, acftType |-> acftType, dest |-> dest]
        /\ computedOut' =
               [kind |-> "computed",
                depRwy |-> orElse(lga.depRwy, sUnknown),
                ldgClass |-> orElse(lga.ldgClass, sUnknown),
                jfkAirspace |-> orElse(jfk.jfkAirspace, sUnknown),
                lgaAirspace |-> orElse(jfk.lgaAirspace, sUnknown),
                exitFix |-> orElse(exitFix, sBlank),
                exitDirection |-> orElse(gateDir, sUnknown)]
        /\ lastPick' = [called |-> TRUE, inputs |-> inputs, rule |-> rule]
        /\ depRulesRows' = rowsAfterPick(depRulesRows, inputs)
        /\ depOut' = depOutFor(rule)
        /\ routesOut' = routesOutFor(dest)
        /\ UNCHANGED <<matchVars, lgaConfigRows, jfkConfigRows, gatesRows, routesRows,
                       navaidIndexBuilt, airportIndexBuilt, initPc, runBtnWired, searchWired, loadLog, searchOut,
                       memo, wxVars>>

-----------------------------------------------------------------------------
(* DOMContentLoaded handler: the seven loads, then the wiring.  Each load  *)
(* delivers one of the tables of its bounded set.                           *)

LgaRow(cfg, dep, ldg) == [LGA_ATIS_Config |-> cfg, DEP_RWY |-> dep, LGA_LDG_CLASS |-> ldg]
JfkRow(cfg, jfk, lga) == [JFK_ATIS_Config |-> cfg, JFK_AIRSPACE |-> jfk, LGA_AIRSPACE |-> lga]
GateRow(gate, dir) == [Gate |-> gate, Direction |-> dir]
RouteRow(origin, dest, route) == [Origin |-> origin, Destination |-> dest, Route |-> route]

sKPHL == <<"K", "P", "H", "L">>

\* What a load of each file may deliver: an empty table (a file of a header
\* line only), or the table below.
LgaConfigTables ==
    { <<>>,
      << LgaRow(<<"L", "1">>, <<"4">>, <<"A">>),
         LgaRow(<<"L", "2">>, <<"1", "3">>, <<>>) >> }

JfkConfigTables ==
    { <<>>, << JfkRow(<<"J", "1">>, <<"N", "E">>, <<"N", "+", "S">>) >> }

GatesTables ==
    { << GateRow(sWHITE, <<"N">>), GateRow(<<"w", "h", "i", "t", "e">>, <<"S">>) >> }

RoutesTables ==
    { << RouteRow(sKLGA, sKPHL, <<"D", "I", "X", "I", "E">>),
         RouteRow(<<"K", "J", "F", "K">>, sKPHL, <<"R", "B", "V">>),
         RouteRow(<<"k", "l", "g", "a">>, <<"k", "p", "h", "l">>, <<"W", "H", "I", "T", "E">>) >> }

\* The values the input elements can hold at a click.  The two selects hold
\* one of the options populateDropdowns made of the table's labels, or
\* nothing when the table has no row.
SelectValues(rows, field) ==
    IF rows = <<>> THEN {<<>>} ELSE { rows[i][field] : i \in 1..Len(rows) }

ExitFixValues == {sWHITE, <<"x", " ">>, <<>>}
AcftTypeValues == {Star, sJET}
DestValues == {sKPHL, <<>>}

Init ==
    /\ IdleTables
    /\ initPc = "LGA_ATIS_Config.tsv"
    /\ runBtnWired = FALSE
    /\ searchWired = FALSE
    /\ loadLog = <<>>
    /\ searchOut = NoSearch
    /\ ui = NoUi
    /\ computedOut = [kind |-> "text", text |-> "Loading TSV data..."]
    /\ depOut = [kind |-> "blank"]
    /\ routesOut = [kind |-> "blank"]
    /\ lastPick = NoPick
    /\ memo = NoMemo
    /\ IdleMatch /\ IdleWx

LoadLgaConfig ==
    /\ initPc = "LGA_ATIS_Config.tsv"
    /\ lgaConfigRows' \in LgaConfigTables
    /\ initPc' = "JFK_ATIS_Config.tsv"
    /\ loadLog' = Append(loadLog, initPc)
    /\ UNCHANGED <<matchVars, jfkConfigRows, gatesRows, depRulesRows, routesRows,
                   navaidIndexBuilt, airportIndexBuilt, runBtnWired, searchWired, searchOut, ui, computedOut,
                   depOut, routesOut, lastPick, memo, wxVars>>

LoadJfkConfig ==
    /\ initPc = "JFK_ATIS_Config.tsv"
    /\ jfkConfigRows' \in JfkConfigTables
    /\ initPc' = "Gates.tsv"
    /\ loadLog' = Append(loadLog, initPc)
    /\ UNCHANGED <<matchVars, lgaConfigRows, gatesRows, depRulesRows, routesRows,
                   navaidIndexBuilt, airportIndexBuilt, runBtnWired, searchWired, searchOut, ui, computedOut,
                   depOut, routesOut, lastPick, memo, wxVars>>

LoadGates ==
    /\ initPc = "Gates.tsv"
    /\ gatesRows' \in GatesTables
    /\ initPc' = "Dep_Rules.tsv"
    /\ loadLog' = Append(loadLog, initPc)
    /\ UNCHANGED <<matchVars, lgaConfigRows, jfkConfigRows, depRulesRows, routesRows,
                   navaidIndexBuilt, airportIndexBuilt, runBtnWired, searchWired, searchOut, ui, computedOut,
                   depOut, routesOut, lastPick, memo, wxVars>>

LoadDepRules ==
    /\ initPc = "Dep_Rules.tsv"
    /\ depRulesRows' \in SessionRuleTables
    /\ initPc' = "PRD.tsv"
    /\ loadLog' = Append(loadLog, initPc)
    /\ UNCHANGED <<matchVars, lgaConfigRows, jfkConfigRows, gatesRows, routesRows,
                   navaidIndexBuilt, airportIndexBuilt, runBtnWired, searchWired, searchOut, ui, computedOut,
                   depOut, routesOut, lastPick, memo, wxVars>>

\* The click listener of runBtn registered while tables are still to load.
LoadRoutesThenWire ==
    /\ initPc = "PRD.tsv"
    /\ routesRows' \in RoutesTables
    /\ initPc' = "NAVAIDs.tsv"
    /\ loadLog' = Append(loadLog, initPc)
    /\ runBtnWired' = TRUE
    /\ UNCHANGED <<matchVars, lgaConfigRows, jfkConfigRows, gatesRows, depRulesRows,
                   navaidIndexBuilt, airportIndexBuilt, searchWired, searchOut, ui,
                   computedOut, depOut, routesOut, lastPick, memo, wxVars>>

LoadRoutes ==
    /\ initPc = "PRD.tsv"
    /\ routesRows' \in RoutesTables
    /\ initPc' = "NAVAIDs.tsv"
    /\ loadLog' = Append(loadLog, initPc)
    /\ UNCHANGED <<matchVars, lgaConfigRows, jfkConfigRows, gatesRows, depRulesRows,
                   navaidIndexBuilt, airportIndexBuilt, runBtnWired, searchWired, searchOut, ui, computedOut,
                   depOut, routesOut, lastPick, memo, wxVars>>

\* navaidsRows = await loadTSV("NAVAIDs.tsv"); buildNavaidMaps(navaidsRows)
LoadNavaids ==
    /\ initPc = "NAVAIDs.tsv"
    /\ navaidIndexBuilt' = TRUE
    /\ initPc' = "Airports.tsv"
    /\ loadLog' = Append(loadLog, initPc)
    /\ UNCHANGED <<matchVars, lgaConfigRows, jfkConfigRows, gatesRows, depRulesRows,
                   routesRows, airportIndexBuilt, runBtnWired, searchWired, searchOut, ui, computedOut,
                   depOut, routesOut, lastPick, memo, wxVars>>

\* The last load and the rest of the handler, which runs without a further
\* await: buildAirportMaps, the wiring, populateDropdowns, the click listener
\* of runBtn, the ready message.
LoadAirports ==
    /\ initPc = "Airports.tsv"
    /\ airportIndexBuilt' = TRUE
    /\ searchWired' = TRUE
    /\ runBtnWired' = TRUE
    /\ computedOut' = [kind |-> "text", text |-> "Ready. Fill inputs and hit EXEC."]
    /\ initPc' = "ready"
    /\ loadLog' = Append(loadLog, initPc)
    /\ UNCHANGED <<matchVars, lgaConfigRows, jfkConfigRows, gatesRows, depRulesRows,
                   routesRows, navaidIndexBuilt, searchOut, ui, depOut, routesOut,
                   lastPick, memo, wxVars>>

\* A failed load reported, and the handlers registered all the same.
LoadFailsThenWire ==
    /\ initPc \notin {"idle", "ready", "error"}
    /\ computedOut' = [kind |-> "error", file |-> initPc]
    /\ initPc' = "error"
    /\ runBtnWired' = TRUE
    /\ searchWired' = TRUE
    /\ UNCHANGED <<matchVars, tableVars, loadLog, searchOut, ui, depOut, routesOut,
                   lastPick, memo, wxVars>>

\* loadTSV throws (fetch rejects, or the response is not ok): the catch block.
LoadFails ==
    /\ initPc \notin {"idle", "ready", "error"}
    /\ computedOut' = [kind |-> "error", file |-> initPc]
    /\ initPc' = "error"
    /\ UNCHANGED <<matchVars, tableVars, runBtnWired, searchWired, loadLog, searchOut, ui, depOut, routesOut,
                   lastPick, memo, wxVars>>

ClickRun ==
    /\ runBtnWired
    /\ \E lgaConfig \in SelectValues(lgaConfigRows, "LGA_ATIS_Config"),
       jfkConfig \in SelectValues(jfkConfigRows, "JFK_ATIS_Config"),
       exitFixValue \in ExitFixValues,
       acftType \in AcftTypeValues,
       dest \in DestValues :
        runTool(lgaConfig, jfkConfig, exitFixValue, acftType, dest)

\* The input listener of the search box: renderUnifiedSearch reads
\* navaidSearchIndex and airportSearchIndex.
SearchInput ==
    /\ searchWired
    /\ searchOut' = [queried |-> TRUE, navaids |-> navaidIndexBuilt,
                                      airports |-> airportIndexBuilt]
    /\ UNCHANGED <<matchVars, tableVars, initPc, runBtnWired, searchWired, loadLog,
                   ui, computedOut, depOut, routesOut, lastPick, memo, wxVars>>

Next ==
    \/ LoadLgaConfig
    \/ LoadJfkConfig
    \/ LoadGates
    \/ LoadDepRules
    \/ LoadRoutes
    \/ LoadNavaids
    \/ LoadAirports
    \/ LoadFails
    \/ ClickRun
    \/ SearchInput

Spec == Init /\ [][Next]_vars

\* The lookup of a selection finds no row.
LgaConfigMissing ==
    \A i \in 1..Len(lgaConfigRows) :
        Trimmed(lgaConfigRows[i].LGA_ATIS_Config) # Trimmed(ui.lgaConfig)

JfkConfigMissing ==
    \A i \in 1..Len(jfkConfigRows) :
        Trimmed(jfkConfigRows[i].JFK_ATIS_Config) # Trimmed(ui.jfkConfig)

GateMissing ==
    \A i \in 1..Len(gatesRows) :
        ~EqualIgnoringCase(Trimmed(gatesRows[i].Gate), Trimmed(ui.exitFix))

\* C6: a lookup that finds no row yields empty strings, and the rule then
\* selected, if any, has a wildcard in every requirement fed by that lookup.
C6_MissingLookupNeedsWildcard ==
    ui.read =>
        LET in == lastPick.inputs
            rule == lastPick.rule
        IN  /\ LgaConfigMissing =>
                /\ in.DEP_RWY = <<>> /\ in.LGA_LDG_CLASS = <<>>
                /\ computedOut.depRwy = sUnknown /\ computedOut.ldgClass = sUnknown
                /\ rule # NullRule =>
                       IsWildcard(rule.DEP_RWY) /\ IsWildcard(rule.LGA_LDG_CLASS_REQ)
            /\ JfkConfigMissing =>
                /\ in.JFK_AIRSPACE = <<>> /\ in.LGA_AIRSPACE = <<>>
                /\ computedOut.jfkAirspace = sUnknown /\ computedOut.lgaAirspace = sUnknown
                /\ rule # NullRule =>
                       IsWildcard(rule.JFK_AIRSPACE_REQ) /\ IsWildcard(rule.LGA_AIRSPACE_REQ)
            /\ GateMissing =>
                /\ in.EXIT_GATE_DIR = <<>>
                /\ computedOut.exitDirection = sUnknown
                /\ rule # NullRule => IsWildcard(rule.EXIT_GATE_DIR)

\* An exit fix that is not in the gate table was entered, a rule was selected
\* all the same, and the table holds a row of lower priority number that
\* requires a gate direction.
C6_Witness ==
    /\ ui.read
    /\ GateMissing /\ Trimmed(ui.exitFix) # <<>>
    /\ ~LgaConfigMissing /\ ~JfkConfigMissing
    /\ lastPick.rule # NullRule
    /\ \E i \in 1..Len(depRulesRows) :
          /\ ~IsWildcard(depRulesRows[i].EXIT_GATE_DIR)
          /\ PriorityOf(depRulesRows[i]) < PriorityOf(lastPick.rule)

\* The first row of the table under the key, if any, has the given values.
FirstRowGives(rows, keyField, key, field1, val1, field2, val2) ==
    \E i \in 1..Len(rows) :
        /\ rows[i][keyField] = key
        /\ \A j \in 1..(i - 1) : rows[j][keyField] # key
        /\ rows[i][field1] = val1
        /\ rows[i][field2] = val2

ScenarioRow ==
    RuleRow(0, <<"4">>, <<"N">>, <<"*">>, <<"N">>, <<"*">>, <<"*">>, <<"*">>,
            <<"L", "G", "A", "7", ".", "M", "A", "S", "P", "E", "T", "H">>, <<>>, <<"1">>)

\* The scenario of C7: the selections and lookup rows, and a rule table whose
\* lowest-priority satisfying row (the first of them in the table, should
\* several share the priority) is the scenario's row.
ScenarioHolds ==
    /\ ui.read
    /\ FirstRowGives(lgaConfigRows, "LGA_ATIS_Config", ui.lgaConfig,
                     "DEP_RWY", <<"4">>, "LGA_LDG_CLASS", <<"A">>)
    /\ FirstRowGives(jfkConfigRows, "JFK_ATIS_Config", ui.jfkConfig,
                     "JFK_AIRSPACE", <<"N", "E">>, "LGA_AIRSPACE", <<"N", "+", "S">>)
    /\ ui.exitFix = <<"W", "H", "I", "T", "E">>
    /\ FirstRowGives(gatesRows, "Gate", ui.exitFix, "Direction", <<"N">>, "Direction", <<"N">>)
    /\ \E i \in 1..Len(depRulesRows) :
          /\ depRulesRows[i] = [ScenarioRow EXCEPT !.line = i]
          /\ \A j \in Satisfying(depRulesRows, lastPick.inputs) \ {i} :
                \/ PriorityOf(depRulesRows[j]) > 1
                \/ PriorityOf(depRulesRows[j]) = 1 /\ j > i

\* C7: in the scenario the execute action selects the scenario's row and
\* displays "CLIMB VIA SID".
C7_EndToEndScenario ==
    ScenarioHolds =>
        /\ [lastPick.rule EXCEPT !.line = 0] = ScenarioRow
        /\ depOut.kind = "rule"
        /\ depOut.procedure = ScenarioRow.OUTPUT
        /\ depOut.climb = "CLIMB VIA SID"

\* The scenario with other satisfying rows in the table, one of them ahead of
\* the scenario's row.
C7_Witness ==
    /\ ScenarioHolds
    /\ lastPick.rule.line > 1
    /\ 1 \in Satisfying(depRulesRows, lastPick.inputs)

-----------------------------------------------------------------------------
(* Load-then-serve *)

\* The tables in the order the DOMContentLoaded handler awaits them.
LoadOrder ==
    << "LGA_ATIS_Config.tsv", "JFK_ATIS_Config.tsv", "Gates.tsv", "Dep_Rules.tsv",
       "PRD.tsv", "NAVAIDs.tsv", "Airports.tsv" >>

\* A table variable, or index, still as the script declared it.
NotLoaded(file) ==
    CASE file = "LGA_ATIS_Config.tsv" -> lgaConfigRows = <<>>
      [] file = "JFK_ATIS_Config.tsv" -> jfkConfigRows = <<>>
      [] file = "Gates.tsv" -> gatesRows = <<>>
      [] file = "Dep_Rules.tsv" -> depRulesRows = <<>>
      [] file = "PRD.tsv" -> routesRows = <<>>
      [] file = "NAVAIDs.tsv" -> ~navaidIndexBuilt
      [] file = "Airports.tsv" -> ~airportIndexBuilt

\* Something table-backed is registered, has run, or has shown output.
Serving ==
    \/ runBtnWired
    \/ searchWired
    \/ ui.read
    \/ lastPick.called
    \/ searchOut.queried
    \/ depOut.kind # "blank"
    \/ routesOut.kind # "blank"

\* C11: the tables are loaded one at a time in the order LGA config, JFK
\* config, gates, departure rules, routes, navaids, airports; the execute and
\* search listeners are registered, and a rule evaluation, route join or
\* reference search has happened, only when all seven are loaded and both
\* indexes are built; a reference search sees both indexes built.
C11_LoadThenServe ==
    /\ Len(loadLog) <= Len(LoadOrder)
    /\ loadLog = SubSeq(LoadOrder, 1, Len(loadLog))
    /\ initPc \notin {"ready", "error"} =>
           Len(loadLog) < Len(LoadOrder) /\ initPc = LoadOrder[Len(loadLog) + 1]
    /\ \A k \in (Len(loadLog) + 1)..Len(LoadOrder) : NotLoaded(LoadOrder[k])
    /\ Serving =>
           /\ initPc = "ready"
           /\ loadLog = LoadOrder
           /\ navaidIndexBuilt /\ airportIndexBuilt
    /\ searchOut.queried => searchOut.navaids /\ searchOut.airports

\* The tool has evaluated a rule and the search has been used, all seven
\* tables loaded.
C11_Witness ==
    /\ initPc = "ready"
    /\ loadLog = LoadOrder
    /\ lastPick.called
    /\ routesOut.kind # "blank"
    /\ searchOut.queried

\* C12: when a load fails the status output shows the error, the tables after
\* the failed one stay unloaded, and neither then nor later is a listener of
\* the tool or the search registered, a rule evaluated, routes joined or a
\* reference search made; the error is shown only after a failed load.
C12_LoadFailureIsFatal ==
    /\ initPc = "error" =>
           /\ computedOut.kind = "error"
           /\ Len(loadLog) < Len(LoadOrder)
           /\ computedOut.file = LoadOrder[Len(loadLog) + 1]
           /\ \A k \in (Len(loadLog) + 1)..Len(LoadOrder) : NotLoaded(LoadOrder[k])
           /\ ~Serving
    /\ computedOut.kind = "error" => initPc = "error"

\* The load of the departure rules failed after three tables were loaded.
C12_Witness ==
    /\ initPc = "error"
    /\ computedOut.kind = "error"
    /\ computedOut.file = "Dep_Rules.tsv"
    /\ Len(loadLog) = 3

-----------------------------------------------------------------------------
(* Weather watchlist and refreshWx *)

concurrency == 5
WatchlistCap == 20

\* Positions are JavaScript indices: position k of a list is element k + 1
\* of the sequence.
At(list, k) == list[k + 1]

Min(a, b) == IF a < b THEN a ELSE b

sKJFK == <<"K", "J", "F", "K">>
sKEWR == <<"K", "E", "W", "R">>
sKTEB == <<"K", "T", "E", "B">>
sKBOS == <<"K", "B", "O", "S">>
sKDCA == <<"K", "D", "C", "A">>
sKORD == <<"K", "O", "R", "D">>

DefaultWatchlist == <<sKLGA, sKJFK, sKEWR, sKTEB>>

\* arr.map(x => norm(x).toUpperCase()).filter(Boolean)
normalizeItems(items) ==
    filterNonEmpty([k \in 1..Len(items) |-> toUpperCase(norm(items[k]))])

\* loadWxWatchlist: the stored item is absent, is not JSON of an array (or
\* holds a non-string, on which norm throws), or is an array of strings.
loadWxWatchlist(stored) ==
    LET parsed == IF stored.kind = "array" THEN normalizeItems(stored.items) ELSE <<>>
    IN  IF parsed = <<>> THEN DefaultWatchlist ELSE parsed

\* saveWxWatchlist
savedWxWatchlist(list) == [kind |-> "array", items |-> list]

\* /^[A-Z0-9]{3,5}$/.test(norm(s).toUpperCase())
isLikelyIcao(s) ==
    LET v == toUpperCase(norm(s))
    IN  /\ Len(v) >= 3 /\ Len(v) <= 5
        /\ \A k \in 1..Len(v) : v[k] \in {Upper[j] : j \in 1..Len(Upper)} \/ isDigit(v[k])

\* What fetchVatsimMetar resolves to, or the placeholder the worker's catch
\* block makes: `${icao} (error)`.
MetarText(kind, icao) == [kind |-> kind, id |-> icao]

Hole == [set |-> FALSE, icao |-> <<>>, metar |-> MetarText("none", <<>>)]

Slot(icao, metar) == [set |-> TRUE, icao |-> icao, metar |-> metar]

\* results.push(value): slots filled in the order the fetches settle.
storeInCompletionOrder(results, idx, value) == Append(results, value)

\* results[idx] = value on a JavaScript array: an index at or beyond the
\* length extends the array, leaving holes.
arraySet(results, idx, value) ==
    [k \in 1..(IF idx + 1 > Len(results) THEN idx + 1 ELSE Len(results)) |->
        IF k = idx + 1 THEN value
        ELSE IF k <= Len(results) THEN results[k] ELSE Hole]

\* results.filter(Boolean).map(r => renderMetarLineHtml(r.icao, r.metar))
RECURSIVE renderResults(_)
renderResults(results) ==
    IF results = <<>> THEN <<>>
    ELSE IF Head(results).set
         THEN <<[icao |-> Head(results).icao, metar |-> Head(results).metar]>>
              \o renderResults(Tail(results))
         ELSE renderResults(Tail(results))

\* A cursor that is read but not advanced: the position below it is claimed
\* once more.
claimedAgain(list, from, n) ==
    { [idx |-> k, icao |-> At(list, k)] :
        k \in (IF from > 0 THEN from - 1 ELSE 0)..(from + n - 2) }

\* The fetches a list of claimed positions starts: one per worker.
claimed(list, from, n) ==
    { [idx |-> k, icao |-> At(list, k)] : k \in from..(from + n - 1) }

\* A batch that starts one worker for every station of the watchlist.
newBatchWorkerPerStation(list) ==
    [i |-> Len(list),
     results |-> [k \in 1..Len(list) |-> Hole],
     inflight |-> claimed(list, 0, Len(list)),
     done |-> FALSE,
     wl0 |-> list,
     edited |-> FALSE,
     failed |-> {},
     headLast |-> FALSE]

\* The closure of one refreshWx invocation: the cursor i, the slot array, and
\* the fetches its workers are suspended on.  The remaining fields are not
\* program state: wl0 is the watchlist the batch started on, edited whether
\* the watchlist was reassigned while the batch ran, failed the positions
\* whose fetch was rejected, headLast whether the fetch of position 0 was the
\* last of the batch to settle.
newBatch(list) ==
    [i |-> Min(concurrency, Len(list)),
     results |-> [k \in 1..Len(list) |-> Hole],
     inflight |-> claimed(list, 0, Min(concurrency, Len(list))),
     done |-> FALSE,
     wl0 |-> list,
     edited |-> FALSE,
     failed |-> {},
     headLast |-> FALSE]

Fetching == [kind |-> "text", batch |-> 0, lines |-> <<>>]

\* refreshWx up to its await, called with the batches already running:
\* nothing to fetch on an empty watchlist; otherwise the slot array is sized,
\* and min(concurrency, length) workers each claim a position and start its
\* fetch before any of them is resumed.
refreshWx(list, batches) ==
    IF list = <<>>
    THEN /\ wxOut' = [kind |-> "lines", batch |-> 0, lines |-> <<>>]
         /\ wxBatches' = batches
    ELSE /\ wxOut' = Fetching
         /\ wxBatches' = Append(batches, newBatch(list))

\* The running batches see the watchlist reassigned.
noteEdit(batches) ==
    [b \in 1..Len(batches) |->
        IF batches[b].done THEN batches[b] ELSE [batches[b] EXCEPT !.edited = TRUE]]

MaxBatches == 2

\* The stations whose fetch may be rejected (network error or not-ok status).
FailingStations == { sKEWR, sKDCA }

\* The fetches the batches have started so far: each batch's cursor counts
\* its claims.
RECURSIVE FetchesStarted(_)
FetchesStarted(batches) ==
    IF batches = <<>> THEN 0
    ELSE Head(batches).i + FetchesStarted(Tail(batches))

MaxFetches == 11

\* The interval timer and the buttons go on for ever; the exploration stops
\* starting batches at MaxBatches, and at MaxFetches fetches.
mayStart(list) ==
    /\ Len(wxBatches) < MaxBatches
    /\ FetchesStarted(wxBatches) + Len(list) <= MaxFetches

FetchOutcomes == {"report", "rejects"}

\* results[idx] = ... in the worker.
storeResult(results, idx, value) == arraySet(results, idx, value)

\* A worker without its catch block: the rejected fetch leaves the slot
\* empty.
uncaught(icao) == Hole

\* The catch block of the worker.
caught(icao) == Slot(icao, MetarText("error", icao))

\* A batch that renders only while no batch was started after it.
renderedIfLatest(b, results, inflight) ==
    IF inflight = {} /\ b = Len(wxBatches)
    THEN [kind |-> "lines", batch |-> b, lines |-> renderResults(results)]
    ELSE wxOut

\* A batch that does not render once one of its fetches was rejected.
renderedUnlessRejected(b, results, inflight) ==
    IF inflight = {} /\ wxBatches[b].failed = {}
    THEN [kind |-> "lines", batch |-> b, lines |-> renderResults(results)]
    ELSE wxOut

\* The display after a worker of batch b has gone on: behind the await of
\* Promise.all the batch writes its results, whatever batches were started
\* since; before it the display stays.
rendered(b, results, inflight) ==
    IF inflight = {}
    THEN [kind |-> "lines", batch |-> b, lines |-> renderResults(results)]
    ELSE wxOut

\* A worker resumed by the settling of its fetch: it stores the result in the
\* slot of the position it claimed, then claims the next position while the
\* cursor is below the current length of the watchlist, else returns.  When
\* the last worker has returned, Promise.all resolves and the batch renders
\* before any other event is handled.
FetchSettles(b, f, outcome) ==
    /\ f \in wxBatches[b].inflight
    /\ outcome = "rejects" => f.icao \in FailingStations
    /\ \E bt \in {wxBatches[b]} :
       \E value \in {IF outcome = "rejects" THEN caught(f.icao)
                     ELSE Slot(f.icao, MetarText("report", f.icao))} :
       \E results \in {storeResult(bt.results, f.idx, value)} :
       \E more \in {bt.i < Len(wxWatchlist)} :
       \E inflight \in {(bt.inflight \ {f}) \cup
                        (IF more THEN claimed(wxWatchlist, bt.i, 1) ELSE {})} :
           /\ wxBatches' = [wxBatches EXCEPT ![b] =
                  [bt EXCEPT !.results = results,
                             !.i = IF more THEN bt.i + 1 ELSE bt.i,
                             !.inflight = inflight,
                             !.done = (inflight = {}),
                             !.failed = IF outcome = "rejects"
                                        THEN bt.failed \cup {f.idx} ELSE bt.failed,
                             !.headLast = (inflight = {} /\ f.idx = 0)]]
           /\ wxOut' = rendered(b, results, inflight)
    /\ UNCHANGED <<wxStorage, wxWatchlist, matchVars, tableVars, toolVars>>

\* The refresh button, and the 60 s interval timer.
RefreshClick ==
    /\ mayStart(wxWatchlist)
    /\ refreshWx(wxWatchlist, wxBatches)
    /\ UNCHANGED <<wxStorage, wxWatchlist, matchVars, tableVars, toolVars>>

\* The click listener of the add button: an id already listed, or not shaped
\* like one, changes nothing.
addHandler(input) ==
    /\ \E v \in {toUpperCase(norm(input))} :
           IF isLikelyIcao(v) /\ \A k \in 1..Len(wxWatchlist) : wxWatchlist[k] # v
           THEN \E list \in {SubSeq(<<v>> \o wxWatchlist, 1,
                                    Min(WatchlistCap, Len(wxWatchlist) + 1))} :
                    /\ wxWatchlist' = list
                    /\ wxStorage' = savedWxWatchlist(list)
                    /\ refreshWx(list, noteEdit(wxBatches))
           ELSE UNCHANGED wxVars
    /\ UNCHANGED <<matchVars, tableVars, toolVars>>

AddClick(input) ==
    /\ mayStart(<<input>> \o wxWatchlist)
    /\ addHandler(input)

\* x !== icao kept, in order.
RECURSIVE removeStation(_, _)
removeStation(list, icao) ==
    IF list = <<>> THEN <<>>
    ELSE IF Head(list) # icao
         THEN <<Head(list)>> \o removeStation(Tail(list), icao)
         ELSE removeStation(Tail(list), icao)

\* The click listener of the chips, for the X button of one chip.
removeHandler(icao) ==
    /\ \E k \in 1..Len(wxWatchlist) : wxWatchlist[k] = icao
    /\ \E list \in {removeStation(wxWatchlist, icao)} :
           /\ wxWatchlist' = list
           /\ wxStorage' = savedWxWatchlist(list)
           /\ refreshWx(list, noteEdit(wxBatches))
    /\ UNCHANGED <<matchVars, tableVars, toolVars>>

RemoveClick(icao) ==
    /\ mayStart(wxWatchlist)
    /\ removeHandler(icao)

\* What the storage item may hold when the page is opened.
StoredWatchlists ==
    { [kind |-> "absent", items |-> <<>>],
      [kind |-> "array", items |-> <<sKLGA, sKJFK, sKEWR, sKTEB, sKBOS, sKDCA>>],
      [kind |-> "array", items |-> <<<<"k", "l", "g", "a", " ">>>>] }

AddInputs == { <<" ", "k", "o", "r", "d">>, sKJFK, <<"K", "-">> }

RemoveChoices == { sKLGA, sKTEB }

\* wireWxPanel: the watchlist is loaded and the first batch started.
InitWx ==
    /\ IdleMatch
    /\ IdleTables
    /\ IdleTool
    /\ wxStorage \in StoredWatchlists
    /\ wxWatchlist = loadWxWatchlist(wxStorage)
    /\ wxBatches = <<newBatch(wxWatchlist)>>
    /\ wxOut = Fetching

NextWx ==
    \/ RefreshClick
    \/ \E input \in AddInputs : AddClick(input)
    \/ \E icao \in RemoveChoices : RemoveClick(icao)
    \/ \E b \in 1..Len(wxBatches) :
       \E f \in wxBatches[b].inflight :
       \E outcome \in FetchOutcomes : FetchSettles(b, f, outcome)

SpecWx == InitWx /\ [][NextWx]_vars

\* Some fetch in flight of batch b settles.
SomeFetchSettles(b) ==
    /\ b <= Len(wxBatches)
    /\ \E f \in wxBatches[b].inflight :
       \E outcome \in FetchOutcomes : FetchSettles(b, f, outcome)

\* Every fetch resolves or rejects in the end: no batch with a fetch in
\* flight waits for ever.
FetchesSettle == \A b \in 1..MaxBatches : WF_vars(SomeFetchSettles(b))

\* The page opened on the default watchlist or on a stored list of one
\* station.
InitWxFair ==
    /\ InitWx
    /\ Len(wxWatchlist) <= Len(DefaultWatchlist)

MaxFairFetches == 8

\* A batch is started.
StartsBatch ==
    \/ RefreshClick
    \/ \E input \in AddInputs : AddClick(input)
    \/ \E icao \in RemoveChoices : RemoveClick(icao)

\* The steps of NextWx, batches being started while the fetches started so
\* far and those of the new batch stay within MaxFairFetches.
NextWxFair ==
    \/ /\ StartsBatch
       /\ FetchesStarted(wxBatches) + Len(wxWatchlist') <= MaxFairFetches
    \/ \E b \in 1..Len(wxBatches) : SomeFetchSettles(b)

SpecWxFair == InitWxFair /\ [][NextWxFair]_vars /\ FetchesSettle

-----------------------------------------------------------------------------
(* Properties of a weather batch *)

StationsOf(lines) == [k \in 1..Len(lines) |-> lines[k].icao]

\* The batch whose results wxOut shows, if it shows any.
Shown(b) == wxOut.kind = "lines" /\ wxOut.batch = b

\* The watchlist stayed as the batch found it.
Undisturbed(b) == ~wxBatches[b].edited

C21_EveryBatchRenders ==
    [][\A b \in 1..Len(wxBatches) :
          (~wxBatches[b].done /\ wxBatches'[b].done) =>
              wxOut' = [kind |-> "lines", batch |-> b,
                        lines |-> renderResults(wxBatches'[b].results)]]_vars

\* The second batch has finished, the first finished after it, and the
\* display shows the first: the watchlist of the first batch, not the current
\* one.
C21_Witness ==
    /\ Len(wxBatches) = 2
    /\ wxBatches[1].done
    /\ wxBatches[2].done
    /\ Shown(1)
    /\ StationsOf(wxOut.lines) # wxWatchlist

\* C22: a weather batch in flight is unaffected by edits of the watchlist
\* made while it runs: every slot index it writes or has claimed is below the
\* length the slot array was given at its start, the station of slot k is the
\* station that was at position k when the batch started, and a finished
\* batch has filled every position of that list, so that no station is
\* fetched twice or skipped.
C22_BatchUnaffectedByEdits ==
    \A b \in 1..Len(wxBatches) :
        \E bt \in {wxBatches[b]} :
            /\ Len(bt.results) = Len(bt.wl0)
            /\ \A f \in bt.inflight :
                   f.idx < Len(bt.wl0) /\ f.icao = At(bt.wl0, f.idx)
            /\ \A k \in 0..(Len(bt.results) - 1) :
                   At(bt.results, k).set =>
                       k < Len(bt.wl0) /\ At(bt.results, k).icao = At(bt.wl0, k)
            /\ bt.done => \A k \in 0..(Len(bt.wl0) - 1) : At(bt.results, k).set

\* The positions a batch has a fetch in flight for, and those it has filled.
InFlightPositions(bt) == { f.idx : f \in bt.inflight }

FilledPositions(bt) == { k \in 0..(Len(bt.results) - 1) : At(bt.results, k).set }

\* C23: in a weather batch during which the watchlist is not edited the
\* cursor hands each position 0..n-1 to exactly one worker: the positions
\* below the cursor are each either in flight or filled and never both, no
\* two fetches in flight are for one position, no position at or above the
\* cursor is touched, and the finished batch has fetched every position.
C23_EachPositionOnce ==
    \A b \in 1..Len(wxBatches) :
        Undisturbed(b) =>
            \E bt \in {wxBatches[b]} :
                /\ bt.i <= Len(bt.wl0)
                /\ InFlightPositions(bt) \cup FilledPositions(bt) = 0..(bt.i - 1)
                /\ InFlightPositions(bt) \cap FilledPositions(bt) = {}
                /\ Cardinality(InFlightPositions(bt)) = Cardinality(bt.inflight)
                /\ bt.done => bt.i = Len(bt.wl0)

\* A finished batch on six stations, unedited, whose sixth position was
\* claimed by a resumed worker while the fetch of position 0 was still in
\* flight.
C23_Witness ==
    \E b \in 1..Len(wxBatches) :
        /\ Undisturbed(b)
        /\ wxBatches[b].done
        /\ wxBatches[b].headLast
        /\ Len(wxBatches[b].wl0) = 6
        /\ FilledPositions(wxBatches[b]) = 0..5

\* C24: if every fetch settles in the end, every invocation of refreshWx on a
\* non-empty watchlist terminates and puts its rendered results in the place
\* of "Fetching METARs...", also when other batches are started while it
\* runs.
C24_EveryBatchTerminates ==
    \A b \in 1..MaxBatches :
        (b <= Len(wxBatches) /\ ~wxBatches[b].done) ~> Shown(b)

\* The first batch has terminated and is on display in the place of the
\* "Fetching METARs..." the second batch wrote when it started; the second is
\* still running.
C24_Witness ==
    /\ Len(wxBatches) = 2
    /\ wxBatches[1].done
    /\ ~wxBatches[2].done
    /\ Shown(1)

\* C20: within one weather batch at most 5 fetches are in flight at any
\* moment: the batch starts min(5, watchlist length) workers, and a worker has
\* one outstanding fetch at most, so no batch ever has more fetches in flight
\* than it started workers.
C20_AtMostFiveInFlight ==
    \A b \in 1..Len(wxBatches) :
        /\ Cardinality(wxBatches[b].inflight) <= 5
        /\ Cardinality(wxBatches[b].inflight) <= Len(wxBatches[b].wl0)
        /\ \A f, g \in wxBatches[b].inflight : f.idx = g.idx => f = g

\* A batch on six stations after its first fetch settled: the worker resumed
\* has claimed the sixth station, and five fetches are in flight again.
C20_Witness ==
    \E b \in 1..Len(wxBatches) :
        /\ Len(wxBatches[b].wl0) = 6
        /\ wxBatches[b].i = 6
        /\ Cardinality(wxBatches[b].inflight) = 5
        /\ \E f \in wxBatches[b].inflight : f.idx = 5

-----------------------------------------------------------------------------
(* Flight category of a report *)

\* \w of a regular expression.
wordChar(c) ==
    \/ isDigit(c)
    \/ c = "_"
    \/ \E i \in 1..Len(Upper) : Upper[i] = c \/ Lower[i] = c

\* The last index of the run of digits that starts at p (p - 1: no digit at p).
RECURSIVE digitRunEnd(_, _)
digitRunEnd(s, p) ==
    IF p <= Len(s) /\ isDigit(s[p]) THEN digitRunEnd(s, p + 1) ELSE p - 1

\* The last index of the run of white space that starts at p.
RECURSIVE spaceRunEnd(_, _)
spaceRunEnd(s, p) ==
    IF p <= Len(s) /\ isSpace(s[p]) THEN spaceRunEnd(s, p + 1) ELSE p - 1

\* lit occurs in s at index p.
startsAt(s, p, lit) ==
    /\ p >= 1
    /\ p + Len(lit) - 1 <= Len(s)
    /\ \A i \in 1..Len(lit) : s[p + i - 1] = lit[i]

\* \b behind the word character s[q], and before the word character s[p].
boundaryAfter(s, q) == q = Len(s) \/ ~wordChar(s[q + 1])

boundaryBefore(s, p) == p = 1 \/ ~wordChar(s[p - 1])

\* \s*SM\b matches right behind index q.
tailSM(s, q) ==
    \E r \in {spaceRunEnd(s, q + 1)} :
        startsAt(s, r + 1, <<"S", "M">>) /\ boundaryAfter(s, r + 2)

\* (\d+\s+\d+\/\d+|\d+\/\d+|\d+)\s*SM\b tried at index p: the last index of
\* the captured group, 0 when the pattern does not match there.  Each \d+ is
\* followed by something no digit matches, so it takes the whole run.
visMatchAt(s, p) ==
    LET e1 == digitRunEnd(s, p)
        w == spaceRunEnd(s, e1 + 1)
        e2 == digitRunEnd(s, w + 1)
        e3 == digitRunEnd(s, e2 + 2)
        f2 == digitRunEnd(s, e1 + 2)
    IN  IF e1 < p THEN 0
        ELSE IF w > e1 /\ e2 > w /\ startsAt(s, e2 + 1, <<"/">>) /\ e3 > e2 + 1
                /\ tailSM(s, e3) THEN e3
        ELSE IF startsAt(s, e1 + 1, <<"/">>) /\ f2 > e1 + 1 /\ tailSM(s, f2) THEN f2
        ELSE IF tailSM(s, e1) THEN e1
        ELSE 0

NaN == [nan |-> TRUE, num |-> 0, den |-> 1]

\* raw.split(/\s+/)
RECURSIVE splitAtSpaces(_, _)
splitAtSpaces(s, cur) ==
    IF s = <<>> THEN <<cur>>
    ELSE IF isSpace(Head(s)) THEN <<cur>> \o splitAtSpaces(trimStart(s), <<>>)
    ELSE splitAtSpaces(Tail(s), Append(cur, Head(s)))

\* frac.split("/")
RECURSIVE splitAtSlash(_, _)
splitAtSlash(s, cur) ==
    IF s = <<>> THEN <<cur>>
    ELSE IF Head(s) = "/" THEN <<cur>> \o splitAtSlash(Tail(s), <<>>)
    ELSE splitAtSlash(Tail(s), Append(cur, Head(s)))

\* a / b of two Number results, as a fraction; NaN when either is not finite
\* or b is 0 (the code's guard).
fractionOf(raw) ==
    LET ab == splitAtSlash(raw, <<>>)
        a == Number(ab[1])
        b == IF Len(ab) >= 2 THEN Number(ab[2]) ELSE [nan |-> TRUE, val |-> 0]
    IN  IF a.nan \/ b.nan \/ b.val = 0 THEN NaN
        ELSE [nan |-> FALSE, num |-> a.val, den |-> b.val]

\* parseVisSM: the value of the leftmost match, as a fraction num / den.
parseVisSM(metar) ==
    LET starts == { p \in 1..Len(metar) : visMatchAt(metar, p) > 0 }
    IN  IF starts = {} THEN NaN
        ELSE LET p == CHOOSE q \in starts : \A r \in starts : q <= r
                 raw == trim(SubSeq(metar, p, visMatchAt(metar, p)))
             IN  IF includes(raw, <<" ">>)
                 THEN LET wf == splitAtSpaces(raw, <<>>)
                          w == Number(wf[1])
                          f == fractionOf(wf[2])
                      IN  IF w.nan \/ f.nan THEN NaN
                          ELSE [nan |-> FALSE, num |-> w.val * f.den + f.num,
                                den |-> f.den]
                 ELSE IF includes(raw, <<"/">>) THEN fractionOf(raw)
                 ELSE LET n == Number(raw)
                      IN  IF n.nan THEN NaN
                          ELSE [nan |-> FALSE, num |-> n.val, den |-> 1]

\* The layers /\b(BKN|OVC|VV)(\d{3})\b/g finds that begin at index p, by the
\* index of their first digit (0: none).
layerDigitsAt(s, p) ==
    LET d == IF startsAt(s, p, <<"B", "K", "N">>) \/ startsAt(s, p, <<"O", "V", "C">>)
             THEN p + 3
             ELSE IF startsAt(s, p, <<"V", "V">>) THEN p + 2 ELSE 0
    IN  IF /\ d > 0
           /\ boundaryBefore(s, p)
           /\ d + 2 <= Len(s)
           /\ \A i \in d..(d + 2) : isDigit(s[i])
           /\ boundaryAfter(s, d + 2)
        THEN d ELSE 0

Infinity == [inf |-> TRUE, ft |-> 0]

\* parseCeilFt: the lowest layer, in feet, or Infinity.
parseCeilFt(metar) ==
    LET hs == { decimalValue(SubSeq(metar, layerDigitsAt(metar, p),
                                    layerDigitsAt(metar, p) + 2)) * 100 :
                  p \in { q \in 1..Len(metar) : layerDigitsAt(metar, q) > 0 } }
    IN  IF hs = {} THEN Infinity
        ELSE [inf |-> FALSE, ft |-> CHOOSE h \in hs : \A g \in hs : h <= g]

\* Number.isFinite(ceil) && ceil < limit, Number.isFinite(vis) && vis < limit
ceilBelow(ceil, limit) == ~ceil.inf /\ ceil.ft < limit

visBelow(vis, limit) == ~vis.nan /\ vis.num < limit * vis.den

Undetermined == "-"   \* the em dash the code shows

\* flightCategory
flightCategory(metar) ==
    LET m == norm(metar)
        vis == parseVisSM(m)
        ceil == parseCeilFt(m)
    IN  IF m = <<>> THEN [cat |-> Undetermined, cls |-> ""]
        ELSE IF ceilBelow(ceil, 500) \/ visBelow(vis, 1)
             THEN [cat |-> "LIFR", cls |-> "wxCatLIFR"]
        ELSE IF ceilBelow(ceil, 1000) \/ visBelow(vis, 3)
             THEN [cat |-> "IFR", cls |-> "wxCatIFR"]
        ELSE IF ceilBelow(ceil, 3000) \/ visBelow(vis, 5)
             THEN [cat |-> "MVFR", cls |-> "wxCatMVFR"]
        ELSE [cat |-> "VFR", cls |-> "wxCatVFR"]

\* Report groups, each with what it reports: station, time and wind (the
\* second with the variable-direction group); a visibility in statute miles
\* as num / den; sky condition with the ceiling in feet, which is the lowest
\* broken, overcast or vertical-visibility layer.
WindGroups ==
    { <<"K", "L", "G", "A", " ", "1", "2", "1", "8", "5", "1", "Z", " ", "2", "7", "0", "1", "0", "K", "T">>,
      <<"K", "J", "F", "K", " ", "1", "2", "1", "8", "5", "1", "Z", " ", "2", "4", "0", "1", "0", "K", "T", " ", "2", "4", "0", "V", "3", "0", "0">> }

VisGroups ==
    { [text |-> <<"1", "/", "4", "S", "M">>, num |-> 1, den |-> 4],
      [text |-> <<"M", "1", "/", "4", "S", "M">>, num |-> 1, den |-> 4],
      [text |-> <<"3", "/", "4", "S", "M">>, num |-> 3, den |-> 4],
      [text |-> <<"1", "S", "M">>, num |-> 1, den |-> 1],
      [text |-> <<"1", " ", "1", "/", "2", "S", "M">>, num |-> 3, den |-> 2],
      [text |-> <<"2", " ", "1", "/", "2", "S", "M">>, num |-> 5, den |-> 2],
      [text |-> <<"3", "S", "M">>, num |-> 3, den |-> 1],
      [text |-> <<"4", "S", "M">>, num |-> 4, den |-> 1],
      [text |-> <<"5", "S", "M">>, num |-> 5, den |-> 1],
      [text |-> <<"1", "0", "S", "M">>, num |-> 10, den |-> 1] }

SkyGroups ==
    { [text |-> <<"V", "V", "0", "0", "2">>, ft |-> 200],
      [text |-> <<"B", "K", "N", "0", "0", "4">>, ft |-> 400],
      [text |-> <<"O", "V", "C", "0", "0", "5">>, ft |-> 500],
      [text |-> <<"B", "K", "N", "0", "0", "9">>, ft |-> 900],
      [text |-> <<"O", "V", "C", "0", "1", "0">>, ft |-> 1000],
      [text |-> <<"B", "K", "N", "0", "2", "9">>, ft |-> 2900],
      [text |-> <<"B", "K", "N", "0", "3", "0">>, ft |-> 3000],
      [text |-> <<"F", "E", "W", "0", "0", "3", " ", "B", "K", "N", "0", "5", "0">>, ft |-> 5000],
      [text |-> <<"B", "K", "N", "0", "4", "0", " ", "O", "V", "C", "0", "0", "8">>, ft |-> 800],
      [text |-> <<"B", "K", "N", "0", "0", "4", "C", "B">>, ft |-> 400],
      [text |-> <<"S", "C", "T", "0", "2", "0", " ", "O", "V", "C", "0", "0", "7", "T", "C", "U">>, ft |-> 700] }

\* A report line with its visibility and ceiling.
Reports ==
    { [text |-> w \o <<" ">> \o v.text \o <<" ">> \o k.text,
       num |-> v.num, den |-> v.den, ft |-> k.ft] :
        w \in WindGroups, v \in VisGroups, k \in SkyGroups }

InitCategory ==
    /\ mRule = <<>>
    /\ mInput \in Reports
    /\ mOut = NoOut
    /\ IdleTables /\ IdleTool /\ IdleWx

CallFlightCategory ==
    /\ mOut.fn = "none"
    /\ mOut' = [fn |-> "flightCategory", val |-> flightCategory(mInput.text)]
    /\ UNCHANGED <<mRule, mInput, tableVars, toolVars, wxVars>>

NextCategory == CallFlightCategory

SpecCategory == InitCategory /\ [][NextCategory]_vars

\* The category of ceiling c feet and visibility num / den statute miles.
CategoryOf(c, num, den) ==
    IF c < 500 \/ num < den THEN "LIFR"
    ELSE IF c < 1000 \/ num < 3 * den THEN "IFR"
    ELSE IF c < 3000 \/ num < 5 * den THEN "MVFR"
    ELSE "VFR"

\* C13: for a report with ceiling c and visibility v, flightCategory returns
\* LIFR if c < 500 or v < 1, otherwise IFR if c < 1000 or v < 3, otherwise
\* MVFR if c < 3000 or v < 5, otherwise VFR.
C13_FlightCategoryBands ==
    mOut.fn = "flightCategory" =>
        mOut.val.cat = CategoryOf(mInput.ft, mInput.num, mInput.den)

\* The bands hold for the reports with no variable-direction wind group and
\* no CB or TCU behind a layer.
FlightCategoryBandsOnPlainReports ==
    (/\ mOut.fn = "flightCategory"
     /\ ~includes(mInput.text, <<"V", "3">>)
     /\ ~includes(mInput.text, <<"C", "B">>)
     /\ ~includes(mInput.text, <<"T", "C", "U">>)) =>
        mOut.val.cat = CategoryOf(mInput.ft, mInput.num, mInput.den)

-----------------------------------------------------------------------------
(* The climb instruction of a procedure string *)

\* Procedure strings: two pieces and what stands between them, with or
\* without white space in front.
ProcPieces ==
    { <<>>,
      <<"L", "G", "A", "7">>,
      <<"l", "g", "a", "7">>,
      <<"M", "A", "S", "P", "E", "T", "H">>,
      <<"C", "o", "n", "e", "y">>,
      <<"G", "L", "D", "M", "N", "#">>,
      <<"H", "O", "P", "E", "A">>,
      <<"T", "N", "N", "I">>,
      <<"H", "D", "G", " ", "0", "4", "0">>,
      <<"L", "G", "A">> }

ProcSeparators ==
    { <<>>, <<" ">>, <<" ", " ">>, <<".">>, <<" ", ".">>, <<"7", ".">> }

ProcStrings ==
    { lead \o a \o sep \o b :
        lead \in {<<>>, <<" ">>}, a \in ProcPieces, sep \in ProcSeparators,
        b \in ProcPieces }

InitClimb ==
    /\ mRule = <<>>
    /\ mInput \in ProcStrings
    /\ mOut = NoOut
    /\ IdleTables /\ IdleTool /\ IdleWx

\* runTool's display of a matched rule whose OUTPUT is the string.
CallClimb ==
    /\ mOut.fn = "none"
    /\ mOut' = [fn |-> "climb",
                val |-> depOutFor(RuleRow(1, Star, Star, Star, Star, Star, Star, Star,
                                          mInput, <<>>, <<"1">>)).climb]
    /\ UNCHANGED <<mRule, mInput, tableVars, toolVars, wxVars>>

NextClimb == CallClimb

SpecClimb == InitClimb /\ [][NextClimb]_vars

\* s with every maximal run of white space replaced by one dot, built from
\* the right and without trimming.
RECURSIVE RunsAsDots(_)
RunsAsDots(s) ==
    IF s = <<>> THEN <<>>
    ELSE LET front == SubSeq(s, 1, Len(s) - 1)
         IN  IF s[Len(s)] # " " THEN Append(RunsAsDots(front), s[Len(s)])
             ELSE IF front # <<>> /\ front[Len(front)] = " " THEN RunsAsDots(front)
             ELSE Append(RunsAsDots(front), ".")

ClimbNames ==
    { <<"L", "G", "A", "7", ".", "M", "A", "S", "P", "E", "T", "H">>,
      <<"L", "G", "A", "7", ".", "C", "O", "N", "E", "Y">>,
      <<"H", "O", "P", "E", "A">>, <<"J", "U", "T", "E", "S">>,
      <<"T", "N", "N", "I", "S">>, <<"N", "T", "H", "N", "S">>,
      <<"G", "L", "D", "M", "N">> }

NamesClimbViaSid(s) == \E n \in ClimbNames : OccursIgnoringCase(n, RunsAsDots(s))

\* C14: the climb instruction shown for a matched rule is "CLIMB VIA SID"
\* exactly when its OUTPUT, upper-cased and with each run of white space
\* replaced by a dot, contains LGA7.MASPETH, LGA7.CONEY, HOPEA, JUTES, TNNIS,
\* NTHNS or GLDMN, and "CLIMB AND MAINTAIN 5,000" for every other OUTPUT, the
\* empty one included.
C14_ClimbInstruction ==
    mOut.fn = "climb" =>
        /\ mOut.val \in {"CLIMB VIA SID", "CLIMB AND MAINTAIN 5,000"}
        /\ (mOut.val = "CLIMB VIA SID") = NamesClimbViaSid(mInput)

\* "lga7  MASPETH": lower case and two spaces between the parts of the name.
C14_Witness ==
    /\ mOut.fn = "climb"
    /\ mInput = <<"l", "g", "a", "7", " ", " ", "M", "A", "S", "P", "E", "T", "H">>
    /\ mOut.val = "CLIMB VIA SID"

-----------------------------------------------------------------------------
(* The watchlist under edits *)

\* Twenty-one station identifiers: S00 to S20.
StationNo(k) == <<"S", Digits[(k \div 10) + 1], Digits[(k % 10) + 1]>>

Stations(from, to) == [k \in 1..(to - from + 1) |-> StationNo(from + k - 1)]

\* What the storage item may hold when the page is opened: nothing, text that
\* is not JSON, and arrays of strings, among them one of 19, of 20 and of 21
\* identifiers and one that names a station twice in different spelling.
WatchStored ==
    { [kind |-> "absent", items |-> <<>>],
      [kind |-> "corrupt", items |-> <<>>],
      [kind |-> "array", items |-> <<>>],
      [kind |-> "array", items |-> Stations(1, 19)],
      [kind |-> "array", items |-> Stations(1, 20)],
      [kind |-> "array", items |-> Stations(0, 20)],
      [kind |-> "array", items |-> <<sKLGA, <<"k", "l", "g", "a", " ">>, sKJFK>>] }

WatchAddInputs ==
    { sKBOS, <<" ", "k", "o", "r", "d">>, sKLGA, StationNo(2), <<"K", "-">>,
      <<"K", "L">>, <<"K", "L", "G", "A", "X", "Y">>, <<>> }

MaxEdits == 2

InitWatch ==
    /\ IdleMatch
    /\ IdleTables
    /\ IdleTool
    /\ wxStorage \in WatchStored
    /\ wxWatchlist = loadWxWatchlist(wxStorage)
    /\ wxBatches = <<newBatch(wxWatchlist)>>
    /\ wxOut = Fetching

\* The edits are followed while the fetches of the batches they start are
\* still out.
WatchAdd(input) ==
    /\ Len(wxBatches) <= MaxEdits
    /\ addHandler(input)

WatchRemove(icao) ==
    /\ Len(wxBatches) <= MaxEdits
    /\ removeHandler(icao)

NextWatch ==
    \/ \E input \in WatchAddInputs : WatchAdd(input)
    \/ \E k \in 1..Len(wxWatchlist) : WatchRemove(wxWatchlist[k])

SpecWatch == InitWatch /\ [][NextWatch]_vars

NoDuplicates(list) ==
    \A i, j \in 1..Len(list) : list[i] = list[j] => i = j

\* C15: loaded from storage and edited by any adds and removes, the watchlist
\* holds at most 20 identifiers and none of them twice.
C15_WatchlistBounded ==
    /\ Len(wxWatchlist) <= 20
    /\ NoDuplicates(wxWatchlist)

\* A station identifier as the claim describes it: 3 to 5 letters or digits.
ValidIdentifier(v) ==
    /\ Len(v) \in 3..5
    /\ \A k \in 1..Len(v) : isDigit(v[k]) \/ \E i \in 1..Len(Upper) : Upper[i] = v[k]

OnList(v, list) == \E k \in 1..Len(list) : list[k] = v

\* The step from the watchlist to the watchlist' is the add of the claim.
AddAsClaimed(input) ==
    LET v == toUpperCase(Trimmed(input))
    IN  IF ValidIdentifier(v) /\ ~OnList(v, wxWatchlist)
        THEN wxWatchlist' = IF Len(wxWatchlist) = 20
                            THEN <<v>> \o SubSeq(wxWatchlist, 1, 19)
                            ELSE <<v>> \o wxWatchlist
        ELSE wxWatchlist' = wxWatchlist /\ wxStorage' = wxStorage

\* C19: adding a valid identifier not yet on the watchlist puts it at
\* position 0 with the previous entries behind it in their order, the last
\* one dropped when there were 20; adding one already listed, or an input
\* that is not 3 to 5 letters or digits, leaves the watchlist and its stored
\* copy as they were.
C19_AddSemantics ==
    [][\A input \in WatchAddInputs : WatchAdd(input) => AddAsClaimed(input)]_vars

\* The same for watchlists of at most 20 entries.
AddSemanticsWithinCap ==
    [][\A input \in WatchAddInputs :
          (WatchAdd(input) /\ Len(wxWatchlist) <= 20) => AddAsClaimed(input)]_vars

\* C25: the watchlist survives a reload: after any sequence of adds and
\* removes, loadWxWatchlist on the stored copy gives exactly the watchlist in
\* memory, also when the last station has been removed and the list is empty.
C25_WatchlistSurvivesReload == loadWxWatchlist(wxStorage) = wxWatchlist

\* A watchlist that is not empty survives the reload.
NonEmptyWatchlistSurvivesReload ==
    wxWatchlist # <<>> => loadWxWatchlist(wxStorage) = wxWatchlist

-----------------------------------------------------------------------------
(* The route join of the execute action *)

sBGSF == <<"B", "G", "S", "F">>

\* Route rows: from KLGA to KPHL in three spellings and with two routes, from
\* elsewhere to KPHL, from KLGA to elsewhere.
RoutePool ==
    << RouteRow(sKLGA, sKPHL, <<"D", "I", "X", "I", "E">>),
       RouteRow(<<"k", "l", "g", "a">>, <<"K", "p", "h", "l">>, <<"W", "H", "I", "T", "E">>),
       RouteRow(sKJFK, sKPHL, <<"R", "B", "V">>),
       RouteRow(sKLGA, sKBOS, <<"M", "E", "R", "I", "T">>),
       RouteRow(sKLGA, <<"K", "P", "H">>, <<"D", "I", "X", "I", "E">>) >>

MaxRoutes == 3

RouteTables ==
    UNION { [1..n -> {RoutePool[i] : i \in 1..Len(RoutePool)}] : n \in 0..MaxRoutes }

RouteDests == { sKPHL, <<" ", "k", "p", "h", "l", " ">>, sKBOS, sBGSF, <<" ">>, <<>> }

\* A session after the last load, with any route table.
InitRoutes ==
    /\ IdleMatch /\ IdleWx
    /\ lgaConfigRows = << LgaRow(<<"L", "1">>, <<"4">>, <<"A">>) >>
    /\ jfkConfigRows = << JfkRow(<<"J", "1">>, <<"N", "E">>, <<"N", "+", "S">>) >>
    /\ gatesRows = << GateRow(sWHITE, <<"N">>) >>
    /\ depRulesRows = <<>>
    /\ routesRows \in RouteTables
    /\ navaidIndexBuilt = TRUE
    /\ airportIndexBuilt = TRUE
    /\ initPc = "ready"
    /\ runBtnWired = TRUE
    /\ searchWired = TRUE
    /\ loadLog = LoadOrder
    /\ searchOut = NoSearch
    /\ ui = NoUi
    /\ computedOut = [kind |-> "text", text |-> "Ready. Fill inputs and hit EXEC."]
    /\ depOut = [kind |-> "blank"]
    /\ routesOut = [kind |-> "blank"]
    /\ lastPick = NoPick
    /\ memo = NoMemo

ClickRunForRoutes ==
    \E dest \in RouteDests :
        runTool(<<"L", "1">>, <<"J", "1">>, sWHITE, Star, dest)

NextRoutes == ClickRunForRoutes

SpecRoutes == InitRoutes /\ [][NextRoutes]_vars

\* The row is a route from KLGA to the destination entered.
RouteTo(r, dest) ==
    /\ EqualIgnoringCase(Trimmed(r.Origin), sKLGA)
    /\ EqualIgnoringCase(Trimmed(r.Destination), Trimmed(dest))

\* C16: for a non-blank destination the execute action shows the table of
\* exactly the route rows from KLGA to that destination, compared ignoring
\* case, in the order of the source table, when there is such a row, and the
\* message "No routes found for <destination>" when there is none.
C16_RouteJoin ==
    (ui.read /\ Trimmed(ui.dest) # <<>>) =>
        \E found \in {SelectSeq(routesRows, LAMBDA r : RouteTo(r, ui.dest))} :
            IF found # <<>>
            THEN routesOut = [kind |-> "table", rows |-> found]
            ELSE /\ routesOut.kind = "noRoutes"
                 /\ EqualIgnoringCase(routesOut.dest, Trimmed(ui.dest))

\* " kphl " finds two of three rows.
C16_Witness ==
    /\ ui.read
    /\ Len(routesRows) = 3
    /\ ui.dest = <<" ", "k", "p", "h", "l", " ">>
    /\ routesOut.kind = "table"
    /\ Len(routesOut.rows) = 2
    /\ routesOut.rows[1].Route # routesOut.rows[2].Route

-----------------------------------------------------------------------------
(* The suggested runway configuration of a report *)

sVRB == <<"V", "R", "B">>

\* The n characters of s from index p are digits.
digitsAt(s, p, n) ==
    /\ p >= 1
    /\ p + n - 1 <= Len(s)
    /\ \A i \in p..(p + n - 1) : isDigit(s[i])

\* KT\b at index q: the index of the T (0: no match).
ktEnd(s, q) ==
    IF startsAt(s, q, <<"K", "T">>) /\ boundaryAfter(s, q + 1) THEN q + 1 ELSE 0

\* G(\d{2,3}) and KT\b at index q, three digits tried before two.
gustEnd(s, q) ==
    IF ~startsAt(s, q, <<"G">>) THEN 0
    ELSE IF digitsAt(s, q + 1, 3) /\ ktEnd(s, q + 4) > 0 THEN ktEnd(s, q + 4)
    ELSE IF digitsAt(s, q + 1, 2) /\ ktEnd(s, q + 3) > 0 THEN ktEnd(s, q + 3)
    ELSE 0

\* (?:G(\d{2,3}))?KT\b at index q, the gust tried first.
windTailEnd(s, q) == IF gustEnd(s, q) > 0 THEN gustEnd(s, q) ELSE ktEnd(s, q)

\* The number of digits (\d{2,3}) takes in the match that begins at p, three
\* tried before two (0: no match at p).
windSpeedLen(s, p) ==
    IF ~(boundaryBefore(s, p) /\ (digitsAt(s, p, 3) \/ startsAt(s, p, sVRB))) THEN 0
    ELSE IF digitsAt(s, p + 3, 3) /\ windTailEnd(s, p + 6) > 0 THEN 3
    ELSE IF digitsAt(s, p + 3, 2) /\ windTailEnd(s, p + 5) > 0 THEN 2
    ELSE 0

parseWindFromMetar(metar) ==
    LET m == toUpperCase(norm(metar))
        starts == { p \in 1..Len(m) : windSpeedLen(m, p) > 0 }
    IN  IF starts = {}
        THEN [dir |-> <<>>, spd |-> [nan |-> TRUE, val |-> 0], raw |-> <<>>]
        ELSE LET p == CHOOSE q \in starts : \A r \in starts : q <= r
                 n == windSpeedLen(m, p)
             IN  [dir |-> SubSeq(m, p, p + 2),
                  spd |-> Number(SubSeq(m, p + 3, p + 2 + n)),
                  raw |-> SubSeq(m, p, windTailEnd(m, p + 3 + n))]

\* /^(IFR|LIFR|IMC)$/ on the category in upper case; a category is a label
\* flightCategory made, in upper case already.
isImc(rawCat) == rawCat \in {"IFR", "LIFR", "IMC"}

\* The tree with the test for VRB behind the test for a numeric direction.
lgaSuggestedConfigNumericFirst(rawDir, rawSpd, rawCat) ==
    IF rawDir = <<>> \/ rawSpd.nan THEN ""
    ELSE IF Number(toUpperCase(rawDir)).nan THEN ""
    ELSE IF toUpperCase(rawDir) = sVRB \/ rawSpd.val <= 4 THEN "Depart 31, Land ILS 22"
    ELSE "Depart 31, Land LOC 31"

\* The tree with direction 224 missing from the sectors of the second band.
lgaSuggestedConfigWithGap(rawDir, rawSpd, rawCat) ==
    LET dirStr == toUpperCase(rawDir)
        spd == rawSpd.val
        imc == isImc(rawCat)
        dir == ((Number(dirStr).val % 360) + 360) % 360
        north == IF imc THEN "Depart 4, Land LOC 31" ELSE "Depart 4, Land RNAV GPS X 31"
    IN  IF rawDir = <<>> \/ rawSpd.nan THEN ""
        ELSE IF dirStr = sVRB THEN "Depart 31, Land ILS 22"
        ELSE IF Number(dirStr).nan THEN ""
        ELSE IF spd <= 4 THEN "Depart 31, Land ILS 22"
        ELSE IF spd <= 14 /\ (dir >= 315 \/ dir <= 44) THEN north
        ELSE IF spd <= 14 /\ dir >= 45 /\ dir <= 134 THEN "Depart 13, Land ILS 4"
        ELSE IF spd <= 14 /\ dir >= 135 /\ dir <= 259 THEN "Depart 13, Land ILS 22"
        ELSE IF spd <= 14 /\ dir >= 260 /\ dir <= 314 THEN "Depart 31, Land ILS 22"
        ELSE IF spd <= 27 /\ (dir >= 315 \/ dir <= 44) THEN north
        ELSE IF spd <= 27 /\ dir >= 45 /\ dir <= 134 THEN "Depart 13, Land ILS 4"
        ELSE IF spd <= 27 /\ dir >= 135 /\ dir <= 223 THEN "Depart 13, Land ILS 22"
        ELSE IF spd <= 27 /\ dir >= 225 /\ dir <= 314 THEN "Depart 31, Land ILS 22"
        ELSE IF dir <= 89 THEN "Depart 4, Land ILS 4"
        ELSE IF dir <= 179
             THEN IF imc THEN "Depart 13, Land ILS 13" ELSE "Depart 13, Land ILS 22 CIR 13"
        ELSE IF dir <= 269 THEN "Depart 22, Land ILS 22"
        ELSE "Depart 31, Land LOC 31"

lgaSuggestedConfigFromInputs(rawDir, rawSpd, rawCat) ==
    LET dirStr == toUpperCase(rawDir)
        spd == rawSpd.val
        imc == isImc(rawCat)
        dir == ((Number(dirStr).val % 360) + 360) % 360
        north == IF imc THEN "Depart 4, Land LOC 31" ELSE "Depart 4, Land RNAV GPS X 31"
    IN  IF rawDir = <<>> \/ rawSpd.nan THEN ""
        ELSE IF dirStr = sVRB THEN "Depart 31, Land ILS 22"
        ELSE IF Number(dirStr).nan THEN ""
        ELSE IF spd <= 4 THEN "Depart 31, Land ILS 22"
        ELSE IF spd <= 14 /\ (dir >= 315 \/ dir <= 44) THEN north
        ELSE IF spd <= 14 /\ dir >= 45 /\ dir <= 134 THEN "Depart 13, Land ILS 4"
        ELSE IF spd <= 14 /\ dir >= 135 /\ dir <= 259 THEN "Depart 13, Land ILS 22"
        ELSE IF spd <= 14 /\ dir >= 260 /\ dir <= 314 THEN "Depart 31, Land ILS 22"
        ELSE IF spd <= 27 /\ (dir >= 315 \/ dir <= 44) THEN north
        ELSE IF spd <= 27 /\ dir >= 45 /\ dir <= 134 THEN "Depart 13, Land ILS 4"
        ELSE IF spd <= 27 /\ dir >= 135 /\ dir <= 224 THEN "Depart 13, Land ILS 22"
        ELSE IF spd <= 27 /\ dir >= 225 /\ dir <= 314 THEN "Depart 31, Land ILS 22"
        ELSE IF dir <= 89 THEN "Depart 4, Land ILS 4"
        ELSE IF dir <= 179
             THEN IF imc THEN "Depart 13, Land ILS 13" ELSE "Depart 13, Land ILS 22 CIR 13"
        ELSE IF dir <= 269 THEN "Depart 22, Land ILS 22"
        ELSE "Depart 31, Land LOC 31"

jfkSuggestedConfigFromInputs(rawDir, rawSpd) ==
    LET dirStr == toUpperCase(rawDir)
        spd == rawSpd.val
        dir == ((Number(dirStr).val % 360) + 360) % 360
    IN  IF rawDir = <<>> \/ rawSpd.nan THEN ""
        ELSE IF dirStr = sVRB \/ spd <= 4 THEN "Depart 31L/R, Land 31L/R"
        ELSE IF Number(dirStr).nan THEN ""
        ELSE IF dir <= 99 THEN "Depart 04L, Land 04L/R"
        ELSE IF dir <= 159 THEN "Depart 13L/R, Land 13L + 22L"
        ELSE IF dir <= 259 THEN "Depart 22R, Land 22L/R"
        ELSE "Depart 31L/R, Land 31L/R"

\* a || "-"
orUndetermined(a) == IF a = "" THEN Undetermined ELSE a

\* renderRunwayHelperBlock: the wind line and the configuration of the block.
renderRunwayHelperBlock(icao, metar) ==
    LET id == toUpperCase(norm(icao))
        m == norm(metar)
        cat == flightCategory(m).cat
        wind == parseWindFromMetar(m)
    IN  [wind |-> wind.raw,
         config |->
            IF id = sKJFK THEN orUndetermined(jfkSuggestedConfigFromInputs(wind.dir, wind.spd))
            ELSE IF id = sKLGA
                 THEN orUndetermined(lgaSuggestedConfigFromInputs(wind.dir, wind.spd, cat))
            ELSE Undetermined]

\* Wind of a report: directions on both sides of every sector limit of the
\* two trees and variable, speeds on both sides of every band limit, with and
\* without a gust; kt is the speed reported, variable says VRB.
WindDirections ==
    { <<"0", "0", "0">>, <<"0", "4", "4">>, <<"0", "4", "5">>, <<"0", "8", "9">>,
      <<"0", "9", "0">>, <<"1", "0", "0">>, <<"1", "3", "5">>, <<"1", "6", "0">>,
      <<"1", "8", "0">>, <<"2", "2", "5">>, <<"2", "6", "0">>, <<"2", "7", "0">>,
      <<"3", "1", "5">>, <<"3", "6", "0">>, sVRB, <<"v", "r", "b">> }

WindSpeeds ==
    { [text |-> <<"0", "0">>, kt |-> 0], [text |-> <<"0", "3">>, kt |-> 3],
      [text |-> <<"0", "4">>, kt |-> 4], [text |-> <<"0", "5">>, kt |-> 5],
      [text |-> <<"1", "4">>, kt |-> 14], [text |-> <<"1", "5">>, kt |-> 15],
      [text |-> <<"2", "7">>, kt |-> 27], [text |-> <<"2", "8">>, kt |-> 28],
      [text |-> <<"0", "0", "4">>, kt |-> 4], [text |-> <<"1", "0", "4">>, kt |-> 104] }

WindGusts == { <<>>, <<"G", "3", "5">> }

Weather ==
    { <<"1", "0", "S", "M", " ", "F", "E", "W", "0", "5", "0">>,
      <<"2", "S", "M", " ", "O", "V", "C", "0", "0", "8">>,
      <<"1", "/", "2", "S", "M", " ", "V", "V", "0", "0", "2">> }

RunwayAirports == { sKLGA, sKJFK }

RunwayReports ==
    { [icao |-> a,
       text |-> a \o <<" ", "1", "2", "1", "8", "5", "1", "Z", " ">> \o d \o v.text \o g
                  \o <<"K", "T", " ">> \o w,
       variable |-> toUpperCase(d) = sVRB, kt |-> v.kt] :
        a \in RunwayAirports, d \in WindDirections, v \in WindSpeeds,
        g \in WindGusts, w \in Weather }
    \cup
    { [icao |-> a,
       text |-> a \o <<" ", "1", "2", "1", "8", "5", "1", "Z", " ", "A", "U", "T", "O", " ">> \o w,
       variable |-> FALSE, kt |-> 99] :
        a \in RunwayAirports, w \in Weather }

InitRunway ==
    /\ mRule = <<>>
    /\ mInput \in RunwayReports
    /\ mOut = NoOut
    /\ IdleTables /\ IdleTool /\ IdleWx

CallRunwayHelper ==
    /\ mOut.fn = "none"
    /\ mOut' = [fn |-> "renderRunwayHelperBlock",
                val |-> renderRunwayHelperBlock(mInput.icao, mInput.text)]
    /\ UNCHANGED <<mRule, mInput, tableVars, toolVars, wxVars>>

NextRunway == CallRunwayHelper

SpecRunway == InitRunway /\ [][NextRunway]_vars

CalmOrVariable == mInput.variable \/ mInput.kt <= 4

\* C18: in both runway-configuration trees calm or variable wind gives the
\* fixed default: for KLGA "Depart 31, Land ILS 22" and for KJFK
\* "Depart 31L/R, Land 31L/R" whenever the speed is at most 4 kt or the
\* direction is VRB, whatever the sector and the flight category are.
C18_CalmOrVariableDefault ==
    (mOut.fn = "renderRunwayHelperBlock" /\ CalmOrVariable) =>
        /\ mInput.icao = sKLGA => mOut.val.config = "Depart 31, Land ILS 22"
        /\ mInput.icao = sKJFK => mOut.val.config = "Depart 31L/R, Land 31L/R"

\* Variable wind of 15 kt in instrument conditions at KLGA: every other test
\* of the tree would give another configuration.
C18_Witness ==
    /\ mOut.fn = "renderRunwayHelperBlock"
    /\ mInput.icao = sKLGA
    /\ mInput.variable
    /\ mInput.kt = 15
    /\ flightCategory(mInput.text).cat = "IFR"
    /\ mOut.val.config = "Depart 31, Land ILS 22"

-----------------------------------------------------------------------------
(* The navaid index *)

\* A row of navaids.csv, by the columns buildNavaidMaps orders and keys by.
NavaidRow(ident, name, type, lat, lon) ==
    [ident |-> ident, name |-> name, type |-> type,
     latitude_deg |-> lat, longitude_deg |-> lon]

toNumberOrNaN(v) == Number(norm(v))

\* haversineNM(KLGA_LAT, KLGA_LON, lat, lon) in whole nautical miles, on the
\* whole-degree points the modelled rows name.
haversineNM(lat, lon) ==
    CASE lat = 0 /\ lon = 0 -> 4674
      [] lat = 0 /\ lon = 5 -> 4899
      [] lat = 0 /\ lon = 104 -> 8356
      [] lat = 1 /\ lon = 0 -> 4634
      [] lat = 1 /\ lon = 5 -> 4859
      [] lat = 1 /\ lon = 104 -> 8296
      [] lat = 52 /\ lon = 0 -> 2995
      [] lat = 52 /\ lon = 5 -> 3170
      [] lat = 52 /\ lon = 104 -> 5235

\* DIST_NM of a record without position.
InfinityNM == [inf |-> TRUE, nm |-> 0]

navaidObj(r) ==
    LET lat == toNumberOrNaN(r.latitude_deg)
        lon == toNumberOrNaN(r.longitude_deg)
        hasPos == ~lat.nan /\ ~lon.nan
    IN  [KIND |-> "NAVAID",
         IDENT |-> toUpperCase(norm(r.ident)),
         NAME |-> norm(r.name),
         TYPE |-> toUpperCase(norm(r.type)),
         LAT |-> lat,
         LON |-> lon,
         DIST_NM |-> IF hasPos THEN [inf |-> FALSE, nm |-> haversineNM(lat.val, lon.val)]
                     ELSE InfinityNM]

\* The place of a letter in the alphabet (0: no letter).
letterRank(c) ==
    IF \E i \in 1..Len(Upper) : Upper[i] = c \/ Lower[i] = c
    THEN CHOOSE i \in 1..Len(Upper) : Upper[i] = c \/ Lower[i] = c
    ELSE 0

RECURSIVE compareLetters(_, _)
compareLetters(a, b) ==
    IF a = <<>> /\ b = <<>> THEN 0
    ELSE IF a = <<>> THEN -1
    ELSE IF b = <<>> THEN 1
    ELSE IF letterRank(Head(a)) < letterRank(Head(b)) THEN -1
    ELSE IF letterRank(Head(a)) > letterRank(Head(b)) THEN 1
    ELSE compareLetters(Tail(a), Tail(b))

\* Between strings of the same letters: lower case first at the first
\* difference of case.
RECURSIVE compareCase(_, _)
compareCase(a, b) ==
    IF a = <<>> \/ b = <<>> THEN 0
    ELSE IF Head(a) = Head(b) THEN compareCase(Tail(a), Tail(b))
    ELSE IF upperChar(Head(a)) = Head(b) THEN -1
    ELSE 1

\* a.localeCompare(b) on names of letters: -1, 0 or 1.
localeCompare(a, b) ==
    IF compareLetters(a, b) # 0 THEN compareLetters(a, b) ELSE compareCase(a, b)

\* a.DIST_NM - b.DIST_NM by its sign; Infinity - Infinity is NaN.
distDifference(a, b) ==
    IF a.DIST_NM.inf /\ b.DIST_NM.inf THEN [nan |-> TRUE, sign |-> 0]
    ELSE IF a.DIST_NM.inf THEN [nan |-> FALSE, sign |-> 1]
    ELSE IF b.DIST_NM.inf THEN [nan |-> FALSE, sign |-> -1]
    ELSE IF a.DIST_NM.nm < b.DIST_NM.nm THEN [nan |-> FALSE, sign |-> -1]
    ELSE IF a.DIST_NM.nm > b.DIST_NM.nm THEN [nan |-> FALSE, sign |-> 1]
    ELSE [nan |-> FALSE, sign |-> 0]

\* The comparator without the distance.
compareNavaidsByNameOnly(a, b, field) == localeCompare(a[field], b[field])

\* (a.DIST_NM - b.DIST_NM) || a[field].localeCompare(b[field])
compareNavaids(a, b, field) ==
    IF distDifference(a, b).nan \/ distDifference(a, b).sign = 0
    THEN localeCompare(a[field], b[field])
    ELSE distDifference(a, b).sign

\* Array.prototype.sort is stable: x goes behind everything not after it.
RECURSIVE insertNavaid(_, _, _)
insertNavaid(sorted, x, field) ==
    IF sorted = <<>> THEN <<x>>
    ELSE IF compareNavaids(Head(sorted), x, field) > 0 THEN <<x>> \o sorted
    ELSE <<Head(sorted)>> \o insertNavaid(Tail(sorted), x, field)

RECURSIVE sortNavaids(_, _)
sortNavaids(list, field) ==
    IF list = <<>> THEN <<>>
    ELSE insertNavaid(sortNavaids(SubSeq(list, 1, Len(list) - 1), field),
                      list[Len(list)], field)

\* `${obj.IDENT} ${obj.NAME} ${obj.TYPE}`.toUpperCase()
navaidKey(obj) ==
    toUpperCase(obj.IDENT \o <<" ">> \o obj.NAME \o <<" ">> \o obj.TYPE)

withKey(obj) ==
    [KIND |-> obj.KIND, IDENT |-> obj.IDENT, NAME |-> obj.NAME, TYPE |-> obj.TYPE,
     LAT |-> obj.LAT, LON |-> obj.LON, DIST_NM |-> obj.DIST_NM, key |-> navaidKey(obj)]

\* buildNavaidMaps: navaidByIdent and navaidSearchIndex of a table.
buildNavaidMaps(rows) ==
    LET kept == SelectSeq(rows, LAMBDA r : toUpperCase(norm(r.ident)) # <<>>)
        objs == [i \in 1..Len(kept) |-> navaidObj(kept[i])]
        idents == { objs[i].IDENT : i \in 1..Len(objs) }
    IN  [navaidByIdent |->
            [id \in idents |->
                sortNavaids(SelectSeq(objs, LAMBDA o : o.IDENT = id), "NAME")],
         navaidSearchIndex |->
            sortNavaids([i \in 1..Len(objs) |-> withKey(objs[i])], "IDENT")]

sLGA == <<"L", "G", "A">>
sVOR == <<"V", "O", "R">>

\* Rows of one name each: two at one point, one far away, one with blank
\* coordinates, two with text for a coordinate (one of them with the
\* identifier in lower case), one of another identifier, one without
\* identifier.
NavaidPool ==
    << NavaidRow(sLGA, <<"B">>, sVOR, <<"5", "2">>, <<"5">>),
       NavaidRow(sLGA, <<"A">>, sVOR, <<"5", "2">>, <<"5">>),
       NavaidRow(sLGA, <<"C">>, sVOR, <<"1">>, <<"1", "0", "4">>),
       NavaidRow(sLGA, <<"D">>, sVOR, <<>>, <<>>),
       NavaidRow(sLGA, <<"F">>, sVOR, <<"x">>, <<"5">>),
       NavaidRow(<<"l", "g", "a", " ">>, <<"e">>, <<"n", "d", "b">>, <<"5", "2">>, <<"N", "A">>),
       NavaidRow(<<"J", "F", "K">>, <<"G">>, sVOR, <<"1">>, <<"1", "0", "4">>),
       NavaidRow(<<" ">>, <<"H">>, sVOR, <<"5", "2">>, <<"0">>) >>

MaxNavaids == 3

NavaidTables ==
    UNION { [1..n -> {NavaidPool[i] : i \in 1..Len(NavaidPool)}] : n \in 0..MaxNavaids }

InitNavaids ==
    /\ mRule = <<>>
    /\ mInput \in NavaidTables
    /\ mOut = NoOut
    /\ IdleTables /\ IdleTool /\ IdleWx

CallBuildNavaidMaps ==
    /\ mOut.fn = "none"
    /\ mOut' = [fn |-> "buildNavaidMaps", val |-> buildNavaidMaps(mInput)]
    /\ UNCHANGED <<mRule, mInput, tableVars, toolVars, wxVars>>

NextNavaids == CallBuildNavaidMaps

SpecNavaids == InitNavaids /\ [][NextNavaids]_vars

\* The text is a number: not blank, digits only.
Numeral(text) ==
    /\ Trimmed(text) # <<>>
    /\ \A i \in 1..Len(Trimmed(text)) : isDigit(Trimmed(text)[i])

\* The row of the table that has this name lacks a numeric latitude or
\* longitude.
LacksCoordinates(name) ==
    \E i \in 1..Len(mInput) :
        /\ Trimmed(mInput[i].name) = name
        /\ ~(Numeral(mInput[i].latitude_deg) /\ Numeral(mInput[i].longitude_deg))

LetterBefore(c, d) ==
    \E i, j \in 1..Len(Upper) :
        /\ i < j
        /\ c \in {Upper[i], Lower[i]}
        /\ d \in {Upper[j], Lower[j]}

\* a is not behind b in the alphabet.
Alphabetical(a, b) ==
    \/ /\ Len(a) <= Len(b)
       /\ \A i \in 1..Len(a) : SameLetter(a[i], b[i])
    \/ \E k \in 1..Min(Len(a), Len(b)) :
        /\ \A i \in 1..(k - 1) : SameLetter(a[i], b[i])
        /\ LetterBefore(a[k], b[k])

NotFarther(x, y) == y.DIST_NM.inf \/ (~x.DIST_NM.inf /\ x.DIST_NM.nm <= y.DIST_NM.nm)

\* Every list of the identifier map is in order of the distance stored, ties
\* by name.
ListsByStoredDistance ==
    mOut.fn = "buildNavaidMaps" =>
        \A id \in DOMAIN mOut.val.navaidByIdent :
            \A i, j \in 1..Len(mOut.val.navaidByIdent[id]) :
                i < j =>
                    \E x \in {mOut.val.navaidByIdent[id][i]} :
                    \E y \in {mOut.val.navaidByIdent[id][j]} :
                        /\ NotFarther(x, y)
                        /\ x.DIST_NM = y.DIST_NM => Alphabetical(x.NAME, y.NAME)

\* No record that lacks coordinates stands before one that has them.
WithoutCoordinatesLast ==
    mOut.fn = "buildNavaidMaps" =>
        \A id \in DOMAIN mOut.val.navaidByIdent :
            \A i, j \in 1..Len(mOut.val.navaidByIdent[id]) :
                i < j =>
                    ~ /\ LacksCoordinates(mOut.val.navaidByIdent[id][i].NAME)
                      /\ ~LacksCoordinates(mOut.val.navaidByIdent[id][j].NAME)

\* C17: after buildNavaidMaps on any table, every list of navaidByIdent is in
\* non-decreasing order of distance from KLGA, records of equal distance are
\* in alphabetical order of name, and every record lacking a numeric latitude
\* or longitude comes after every record that has coordinates.
C17_NavaidListsOrdered == ListsByStoredDistance /\ WithoutCoordinatesLast

\* The table has a row with a blank coordinate.
BlankCoordinate ==
    \E i \in 1..Len(mInput) :
        Trimmed(mInput[i].latitude_deg) = <<>> \/ Trimmed(mInput[i].longitude_deg) = <<>>

\* On tables without a blank coordinate the lists are as C17 says.
NavaidListsOrderedWithoutBlanks == ~BlankCoordinate => C17_NavaidListsOrdered

-----------------------------------------------------------------------------
(* The LaGuardia tree over all directions *)

twoDigits(n) == <<Digits[(n \div 10) + 1], Digits[(n % 10) + 1]>>

threeDigits(n) == <<Digits[(n \div 100) + 1]>> \o twoDigits(n % 100)

\* Speeds on both sides of the limits of the bands, written as a report
\* writes them.
LgaSpeeds ==
    { [text |-> twoDigits(n), kt |-> n] : n \in {0, 4, 5, 14, 15, 27, 28} }
    \cup { [text |-> threeDigits(104), kt |-> 104] }

\* KLGA reports with every direction from 000 to 360, with variable wind, and
\* without a wind group; dir is the direction reported (-1: none).
LgaReports ==
    { [icao |-> sKLGA,
       text |-> sKLGA \o <<" ", "1", "2", "1", "8", "5", "1", "Z", " ">> \o threeDigits(d)
                  \o v.text \o <<"K", "T", " ">> \o w,
       wind |-> TRUE, variable |-> FALSE, dir |-> d, kt |-> v.kt] :
        d \in 0..360, v \in LgaSpeeds, w \in Weather }
    \cup
    { [icao |-> sKLGA,
       text |-> sKLGA \o <<" ", "1", "2", "1", "8", "5", "1", "Z", " ">> \o sVRB
                  \o v.text \o <<"K", "T", " ">> \o w,
       wind |-> TRUE, variable |-> TRUE, dir |-> -1, kt |-> v.kt] :
        v \in LgaSpeeds, w \in Weather }
    \cup
    { [icao |-> sKLGA,
       text |-> sKLGA \o <<" ", "1", "2", "1", "8", "5", "1", "Z", " ", "A", "U", "T", "O", " ">> \o w,
       wind |-> FALSE, variable |-> FALSE, dir |-> -1, kt |-> 0] :
        w \in Weather }

InitLgaWind ==
    /\ mRule = <<>>
    /\ mInput \in LgaReports
    /\ mOut = NoOut
    /\ IdleTables /\ IdleTool /\ IdleWx

SpecLgaWind == InitLgaWind /\ [][NextRunway]_vars

\* The labels of the two band tables, and those of the quadrant table.
BandLabels ==
    { "Depart 4, Land LOC 31", "Depart 4, Land RNAV GPS X 31", "Depart 13, Land ILS 4",
      "Depart 13, Land ILS 22", "Depart 31, Land ILS 22" }

QuadrantLabels ==
    { "Depart 4, Land ILS 4", "Depart 13, Land ILS 13", "Depart 13, Land ILS 22 CIR 13",
      "Depart 22, Land ILS 22", "Depart 31, Land LOC 31" }

\* The wind of the report is decided in one of the bands, not calm or
\* variable.
Steady == mInput.wind /\ ~mInput.variable /\ mInput.kt > 4

\* C26: lgaSuggestedConfigFromInputs is total over valid wind: every numeric
\* direction with a finite speed gets a configuration, 5-14 kt from the first
\* band, 15-27 kt from the second (the two differ for 225-259 degrees) and
\* more than 27 kt from the quadrant table, no direction 0-359 falling
\* through a band; no configuration is given only where there is no wind to
\* read.
C26_LgaTreeTotal ==
    mOut.fn = "renderRunwayHelperBlock" =>
        /\ mInput.wind = (mOut.val.config # Undetermined)
        /\ (Steady /\ mInput.kt <= 27) => mOut.val.config \in BandLabels
        /\ (Steady /\ mInput.kt > 27) => mOut.val.config \in QuadrantLabels
        /\ (Steady /\ mInput.kt <= 14 /\ mInput.dir \in 225..259) =>
               mOut.val.config = "Depart 13, Land ILS 22"
        /\ (Steady /\ mInput.kt \in 15..27 /\ mInput.dir \in 225..259) =>
               mOut.val.config = "Depart 31, Land ILS 22"

\* 224 degrees at 27 kt, the last direction of its sector in the band with
\* the highest speed it takes.
C26_Witness ==
    /\ mOut.fn = "renderRunwayHelperBlock"
    /\ mInput.dir = 224
    /\ mInput.kt = 27
    /\ mOut.val.config = "Depart 13, Land ILS 22"

-----------------------------------------------------------------------------
(* The category shown for a station without report *)

\* `${icao} (error)`
errorText(icao) == icao \o <<" ", "(", "e", "r", "r", "o", "r", ")">>

\* `${id} (no METAR)`
noMetarText(id) == id \o <<" ", "(", "n", "o", " ", "M", "E", "T", "A", "R", ")">>

\* lines.find(l => l.toUpperCase().startsWith(id + " ")): the index of the
\* first such line (0: none).
exactLine(lines, id) ==
    LET hits == { k \in 1..Len(lines) : startsAt(toUpperCase(lines[k]), 1, id \o <<" ">>) }
    IN  IF hits = {} THEN 0 ELSE CHOOSE k \in hits : \A j \in hits : k <= j

\* What fetchVatsimMetar resolves to on an ok response of these lines.
fetchVatsimMetar(icao, body) ==
    LET id == toUpperCase(norm(icao))
        lines == filterNonEmpty([k \in 1..Len(body) |-> trim(body[k])])
    IN  IF exactLine(lines, id) > 0 THEN lines[exactLine(lines, id)]
        ELSE IF lines # <<>> THEN lines[1]
        ELSE noMetarText(id)

\* The slot the worker fills for a station: the report, or the placeholder of
\* its catch block.
workerResult(icao, response) ==
    IF response.rejects THEN [icao |-> icao, metar |-> errorText(icao)]
    ELSE [icao |-> icao, metar |-> fetchVatsimMetar(icao, response.body)]

\* renderMetarLineHtml: the station, the category shown, and the text.
renderMetarLineHtml(icao, metar) ==
    [id |-> toUpperCase(norm(icao)),
     cat |-> flightCategory(norm(metar)).cat,
     text |-> norm(metar)]

\* Responses for a station: a rejected fetch, an empty body, blank lines
\* only, a line with time and wind only, and two full reports; readable says
\* whether the response carries a visibility or a ceiling.
ResponsesFor(icao) ==
    { [rejects |-> TRUE, body |-> <<>>, readable |-> FALSE],
      [rejects |-> FALSE, body |-> <<>>, readable |-> FALSE],
      [rejects |-> FALSE, body |-> << <<" ">>, <<>> >>, readable |-> FALSE],
      [rejects |-> FALSE,
       body |-> << icao \o <<" ", "1", "2", "1", "8", "5", "1", "Z", " ", "2", "7", "0", "1", "0", "K", "T">> >>,
       readable |-> FALSE],
      [rejects |-> FALSE,
       body |-> << <<>>, icao \o <<" ", "1", "2", "1", "8", "5", "1", "Z", " ", "2", "S", "M", " ", "O", "V", "C", "0", "0", "8">> >>,
       readable |-> TRUE],
      [rejects |-> FALSE,
       body |-> << icao \o <<" ", "1", "2", "1", "8", "5", "1", "Z", " ", "1", "0", "S", "M", " ", "C", "L", "R">> >>,
       readable |-> TRUE] }

WatchedStations ==
    { sKLGA, sKJFK, sKEWR, sKTEB, sKBOS, sKDCA, sKORD } \cup { StationNo(k) : k \in 0..20 }

InitShown ==
    /\ mRule \in WatchedStations
    /\ mInput \in ResponsesFor(mRule)
    /\ mOut = NoOut
    /\ IdleTables /\ IdleTool /\ IdleWx

\* One station of a batch: the worker's slot, rendered.
FetchAndRender ==
    /\ mOut.fn = "none"
    /\ \E r \in {workerResult(mRule, mInput)} :
           mOut' = [fn |-> "renderMetarLineHtml",
                    val |-> renderMetarLineHtml(r.icao, r.metar)]
    /\ UNCHANGED <<mRule, mInput, tableVars, toolVars, wxVars>>

NextShown == FetchAndRender

SpecShown == InitShown /\ [][NextShown]_vars

\* C27: a failed or missing report is never shown with a real category: for
\* the placeholder of a rejected fetch, "<ID> (error)", that of an empty
\* response, "<ID> (no METAR)", and for any text that is not blank and has
\* neither a visibility nor a ceiling to parse, the category is the
\* undetermined one and not LIFR, IFR, MVFR or VFR.
C27_NoCategoryWithoutReport ==
    (mOut.fn = "renderMetarLineHtml" /\ ~mInput.readable) =>
        mOut.val.cat = Undetermined

\* What the code shows in these cases: VFR.
WithoutReportShownAsVFR ==
    (mOut.fn = "renderMetarLineHtml" /\ ~mInput.readable) => mOut.val.cat = "VFR"

====
